---- MODULE Spec2Model ----
(***************************************************************************)
(* Model of the Ochamon asset generators:                                  *)
(*   setup-assets/scripts/generate_images.py  (gradient product images)    *)
(*   setup-assets/scripts/generate_pdfs.py    (PDF specification sheets)   *)
(*                                                                         *)
(* Four specifications share the module:                                   *)
(*   SpecGradient  create_gradient's pixel loop on bounded inputs          *)
(*   SpecCompose   generate_product_image and the thumbnail step           *)
(*   SpecSheet     create_spec_sheet's block sequence                      *)
(*   Spec          the two batch drivers main() writing into a directory   *)
(***************************************************************************)
EXTENDS Integers, Sequences, FiniteSets, TLC

(***************************************************************************)
(* Bounds of the model.                                                    *)
(***************************************************************************)
\* largest width and height create_gradient is run on
MaxDim == 4
\* longest catalog a driver run is given
MaxCatalog == 2
\* number of driver runs over the same catalog
MaxRuns == 2
\* longest certification list of a document record
MaxCerts == 2

(***************************************************************************)
(* IEEE-754 binary64 arithmetic on the non-negative values the gradient    *)
(* uses.  A value v is held as the integer v * 2^75, written in Limbs      *)
(* limbs of 15 bits, least significant limb first: every double met here   *)
(* (ratios >= 2^-15, channel values < 2^9) is a multiple of 2^-75.         *)
(***************************************************************************)
Base == 32768
LimbBits == 15
Limbs == 6
FracLimbs == 5
Mantissa == 53

RECURSIVE Pow2(_)
Pow2(k) == IF k = 0 THEN 1 ELSE 2 * Pow2(k - 1)

\* a number of Limbs limbs, limb i being Limb(i); the tuple is built limb by
\* limb so that each limb is computed once
BigOf(Limb(_)) == << Limb(1), Limb(2), Limb(3), Limb(4), Limb(5), Limb(6) >>

\* the integer k (0 <= k < Base) as a fixed-point value
BigInt(k) == LET L(i) == IF i = FracLimbs + 1 THEN k ELSE 0 IN BigOf(L)
\* one unit in the last place of the fixed-point representation
BigUnit == LET L(i) == IF i = 1 THEN 1 ELSE 0 IN BigOf(L)

RECURSIVE AddCarry(_, _, _)
AddCarry(a, b, i) ==
    IF i = 0 THEN 0 ELSE (a[i] + b[i] + AddCarry(a, b, i - 1)) \div Base
BigAdd(a, b) ==
    LET L(i) == (a[i] + b[i] + AddCarry(a, b, i - 1)) % Base IN BigOf(L)

RECURSIVE SubBorrow(_, _, _)
SubBorrow(a, b, i) ==
    IF i = 0 THEN 0
    ELSE IF a[i] - b[i] - SubBorrow(a, b, i - 1) < 0 THEN 1 ELSE 0
\* a - b for a >= b
BigSub(a, b) ==
    LET L(i) == (a[i] - b[i] - SubBorrow(a, b, i - 1) + Base) % Base
    IN  BigOf(L)

RECURSIVE MulCarry(_, _, _)
MulCarry(a, k, i) ==
    IF i = 0 THEN 0 ELSE (a[i] * k + MulCarry(a, k, i - 1)) \div Base
\* a * k for 0 <= k < Base
BigMulSmall(a, k) ==
    LET L(i) == (a[i] * k + MulCarry(a, k, i - 1)) % Base IN BigOf(L)

RECURSIVE DivRem(_, _, _)
DivRem(a, d, i) ==
    IF i > Limbs THEN 0 ELSE (DivRem(a, d, i + 1) * Base + a[i]) % d
\* floor(a / d) for 0 < d < Base; the remainder is DivRem(a, d, 1)
BigDivSmall(a, d) ==
    LET L(i) == (DivRem(a, d, i + 1) * Base + a[i]) \div d IN BigOf(L)

RECURSIVE IntBitLen(_)
IntBitLen(n) == IF n = 0 THEN 0 ELSE 1 + IntBitLen(n \div 2)
RECURSIVE TopLimb(_, _)
TopLimb(a, i) == IF i = 0 THEN 0 ELSE IF a[i] # 0 THEN i ELSE TopLimb(a, i - 1)
BigBitLen(a) ==
    LET t == TopLimb(a, Limbs)
    IN  IF t = 0 THEN 0 ELSE LimbBits * (t - 1) + IntBitLen(a[t])

BigOdd(a) == a[1] % 2 = 1

\* floor(a / 2^s), and whether a nonzero remainder was dropped
BigShiftRight(a, s) ==
    LET q == s \div LimbBits
        r == s % LimbBits
        D(i) == IF i + q <= Limbs THEN a[i + q] ELSE 0
        dropped == BigOf(D)
    IN  [val    |-> BigDivSmall(dropped, Pow2(r)),
         sticky |-> (\E i \in 1..q : i <= Limbs /\ a[i] # 0)
                    \/ DivRem(dropped, Pow2(r), 1) # 0]

\* a * 2^s (the result fits the limbs)
BigShiftLeft(a, s) ==
    LET q == s \div LimbBits
        r == s % LimbBits
        M(i) == IF i - q >= 1 THEN a[i - q] ELSE 0
        moved == BigOf(M)
    IN  BigMulSmall(moved, Pow2(r))

\* round-to-nearest, ties-to-even, to a 53 bit significand; sticky says the
\* exact value lies strictly above a
Round53(a, sticky) ==
    LET len == BigBitLen(a)
    IN  IF len <= Mantissa THEN a
        ELSE LET q    == len - Mantissa
                 y    == BigShiftRight(a, q - 1)
                 half == BigOdd(y.val)
                 keep == BigShiftRight(y.val, 1).val
                 up   == half /\ (y.sticky \/ sticky \/ BigOdd(keep))
                 kept == IF up THEN BigAdd(keep, BigUnit) ELSE keep
             IN  BigShiftLeft(kept, q)

\* n / d, Python's true division of two ints with 0 <= n <= d, 0 < d < Base
FloatDiv(n, d) ==
    Round53(BigDivSmall(BigInt(n), d), DivRem(BigInt(n), d, 1) # 0)
FloatSub(a, b) == Round53(BigSub(a, b), FALSE)
FloatAdd(a, b) == Round53(BigAdd(a, b), FALSE)
\* int * float for a small non-negative int
FloatMulInt(k, a) == Round53(BigMulSmall(a, k), FALSE)
\* a <= b
RECURSIVE BigLeqFrom(_, _, _)
BigLeqFrom(a, b, i) ==
    IF i = 0 THEN TRUE
    ELSE IF a[i] # b[i] THEN a[i] < b[i]
    ELSE BigLeqFrom(a, b, i - 1)
BigLeq(a, b) == BigLeqFrom(a, b, Limbs)
\* abs(a - b)
FloatAbsDiff(a, b) == IF BigLeq(b, a) THEN FloatSub(a, b) ELSE FloatSub(b, a)
\* int(): truncation of a non-negative float below 2^15
FloatToInt(a) == a[FracLimbs + 1]

(***************************************************************************)
(* create_gradient                                                         *)
(***************************************************************************)
\* numerator and denominator of the ratio of pixel (x, y)
RatioNum(direction, x, y) ==
    IF direction = "diagonal" THEN x + y
    ELSE IF direction = "vertical" THEN y
    ELSE x
RatioDen(direction, width, height) ==
    IF direction = "diagonal" THEN width + height
    ELSE IF direction = "vertical" THEN height
    ELSE width

\* the blend with the two colours exchanged
BlendChannelSwapped(c1, c2, num, den) ==
    LET ratio == FloatDiv(num, den)
    IN  FloatToInt(FloatAdd(FloatMulInt(c2, FloatSub(BigInt(1), ratio)),
                            FloatMulInt(c1, ratio)))

\* int(c1 * (1 - ratio) + c2 * ratio) in double arithmetic
BlendChannel(c1, c2, num, den) ==
    LET ratio == FloatDiv(num, den)
    IN  FloatToInt(FloatAdd(FloatMulInt(c1, FloatSub(BigInt(1), ratio)),
                            FloatMulInt(c2, ratio)))

\* the colour create_gradient gives pixel (x, y)
GradientPixel(width, height, color1, color2, direction, x, y) ==
    LET num == RatioNum(direction, x, y)
        den == RatioDen(direction, width, height)
    IN  << BlendChannel(color1[1], color2[1], num, den),
           BlendChannel(color1[2], color2[2], num, den),
           BlendChannel(color1[3], color2[3], num, den) >>

(***************************************************************************)
(* The image pipeline's data: palettes, fonts, the random generator.       *)
(***************************************************************************)
\* PRODUCTS of generate_images.py
IMAGE_PRODUCTS ==
    <<
      [slug |-> "premium-ceremonial-uji", name |-> "Premium Ceremonial Uji",
       grade |-> "Ceremonial"],
      [slug |-> "organic-culinary-nishio", name |-> "Organic Culinary Nishio",
       grade |-> "Culinary"],
      [slug |-> "classic-usucha-blend", name |-> "Classic Usucha Blend",
       grade |-> "Premium"],
      [slug |-> "first-harvest-shincha", name |-> "First Harvest Shincha",
       grade |-> "Ceremonial"],
      [slug |-> "daily-matcha-kagoshima", name |-> "Daily Matcha Kagoshima",
       grade |-> "Culinary"],
      [slug |-> "competition-grade-uji", name |-> "Competition Grade Uji",
       grade |-> "Competition"],
      [slug |-> "organic-ceremonial-kyoto",
       name |-> "Organic Ceremonial Kyoto", grade |-> "Ceremonial"],
      [slug |-> "cafe-blend-matcha", name |-> "Cafe Blend Matcha",
       grade |-> "Culinary"]
    >>

GRADE_COLORS ==
    [ Ceremonial  |-> [primary   |-> << 76, 140, 74 >>,
                       secondary |-> << 144, 190, 109 >>,
                       accent    |-> << 45, 90, 39 >>],
      Premium     |-> [primary   |-> << 85, 150, 80 >>,
                       secondary |-> << 160, 200, 120 >>,
                       accent    |-> << 50, 100, 45 >>],
      Culinary    |-> [primary   |-> << 100, 160, 90 >>,
                       secondary |-> << 170, 210, 130 >>,
                       accent    |-> << 60, 110, 50 >>],
      Competition |-> [primary   |-> << 60, 120, 60 >>,
                       secondary |-> << 130, 180, 100 >>,
                       accent    |-> << 35, 80, 30 >>] ]

\* a lookup whose default is the first palette of the table
PaletteOrFirst(grade) ==
    IF grade \in DOMAIN GRADE_COLORS THEN GRADE_COLORS[grade]
    ELSE GRADE_COLORS["Ceremonial"]

\* GRADE_COLORS.get(grade, GRADE_COLORS["Premium"])
PaletteFor(grade) ==
    IF grade \in DOMAIN GRADE_COLORS THEN GRADE_COLORS[grade]
    ELSE GRADE_COLORS["Premium"]

AbsDiff(a, b) == IF a >= b THEN a - b ELSE b - a
Min(a, b) == IF a <= b THEN a ELSE b
Max(a, b) == IF a >= b THEN a ELSE b
\* tuple(min(255, c + d) for c in color), tuple(max(0, c - d) for c in color)
Lighten(color, d) ==
    << Min(255, color[1] + d), Min(255, color[2] + d), Min(255, color[3] + d) >>
Darken(color, d) ==
    << Max(0, color[1] - d), Max(0, color[2] - d), Max(0, color[3] - d) >>

(***************************************************************************)
(* The module-global generator of Python's random (a Mersenne Twister).    *)
(* Its state is named by the way it was reached: the last seed given to    *)
(* random.seed and the number of passes of the powder loop made since.     *)
(* A pass makes four draws: uniform, uniform, randint(2, 5), random.  The  *)
(* tables hold what the generator returns: a draw u of random() (53 bits)  *)
(* is the pair << m \div 2^27, m % 2^27 >> with u = m / 2^53, and each row *)
(* is << angle pair, distance pair, size, colour pair >>.                  *)
(***************************************************************************)
PowderSeed == 42
DotCount == 50

\* the draws of the 50 passes after random.seed(42)
DrawsAfterSeed42 ==
    << << 42911206, 7471301, 1678443, 49764611, 4, 16434414, 14979419 >>,
       << 9364231, 116532610, 6878334, 112521397, 2, 39627281, 95423558 >>,
       << 2132899, 69108521, 6287781, 14672546, 3, 33913819, 40400793 >>,
       << 1780798, 104773382, 13343768, 115160126, 5, 14793519, 97254772 >>,
       << 39544950, 85777926, 54319958, 58337757, 2, 50922700, 54077614 >>,
       << 10714555, 46851341, 28361172, 22833825, 4, 10434052, 81558325 >>,
       << 64237481, 118346087, 22588477, 73968079, 2, 25496489, 73599390 >>,
       << 24090698, 56874384, 23082477, 107624232, 4, 54165461, 70024773 >>,
       << 48971471, 30831481, 35985658, 8376941, 5, 5288191, 104155683 >>,
       << 19674861, 55660404, 42187302, 108617021, 4, 38745446, 80013132 >>,
       << 47283015, 71776631, 3075222, 44376630, 3, 51879738, 19420497 >>,
       << 66117097, 5354748, 57399400, 82731195, 2, 25509839, 18654492 >>,
       << 30427850, 42660060, 55976203, 24483473, 3, 24842424, 23841813 >>,
       << 14059778, 112083558, 17916578, 47098363, 2, 40878089, 109721535 >>,
       << 11484920, 35845520, 48930871, 16428983, 3, 31021757, 92573687 >>,
       << 18115891, 133514651, 62101950, 110058520, 3, 45943684, 88871109 >>,
       << 56562834, 118669515, 52076472, 70862796, 3, 55150238, 69263074 >>,
       << 54025709, 21169695, 26921713, 17967786, 2, 14158818, 128388391 >>,
       << 63277599, 105171672, 58812035, 115287275, 4, 14269125, 111094608 >>,
       << 33502842, 93659271, 59370081, 61374249, 5, 9587950, 17775807 >>,
       << 9370432, 16550891, 49995364, 37672777, 4, 50131248, 39230901 >>,
       << 28751707, 60251873, 39160231, 93912178, 4, 14718366, 134038263 >>,
       << 66943615, 76392150, 34193730, 100228151, 2, 50719682, 3161926 >>,
       << 57787638, 7358428, 10257007, 42107191, 3, 53155546, 45666321 >>,
       << 28330675, 107133196, 4263272, 25821297, 5, 39989395, 66848574 >>,
       << 31410296, 35508262, 16872115, 132276830, 2, 45653046, 115475686 >>,
       << 7687437, 45748808, 59377147, 103144332, 4, 51579787, 110123082 >>,
       << 22828789, 74595003, 19696460, 29176602, 3, 30448882, 67326653 >>,
       << 64009503, 48458777, 58777495, 115405816, 4, 65222306, 33593765 >>,
       << 51134417, 79097988, 34069940, 61245417, 2, 58419512, 41963185 >>,
       << 20028290, 123592337, 42879174, 101177543, 3, 10256869, 92201797 >>,
       << 51171233, 77950236, 36197113, 131097148, 2, 40194490, 88862608 >>,
       << 32789774, 1307062, 7507315, 129459616, 4, 58970026, 133232662 >>,
       << 55812128, 121250604, 20636923, 83178236, 2, 16164618, 126031090 >>,
       << 38074679, 130657565, 5285296, 5748105, 5, 54762393, 71753637 >>,
       << 65631428, 51043147, 35749305, 118503142, 3, 8616205, 44275128 >>,
       << 31895660, 63541939, 36896694, 78190346, 4, 35411588, 58547990 >>,
       << 40707828, 95505170, 64717299, 14213536, 3, 47845195, 88027790 >>,
       << 26775919, 133892206, 45076148, 110721442, 4, 29400398, 127480943 >>,
       << 34733926, 97407586, 8120454, 16636664, 3, 4296705, 22688538 >>,
       << 1411585, 39480729, 37173044, 15442738, 3, 482569, 4764265 >>,
       << 47502401, 109461466, 3950951, 82472887, 2, 60761708, 69216951 >>,
       << 57689155, 22174680, 4755156, 34504433, 3, 18688292, 112003202 >>,
       << 32575615, 81486052, 36187376, 75988161, 5, 16307268, 119763782 >>,
       << 31740676, 121299070, 27317331, 79887057, 2, 6504916, 111332447 >>,
       << 28927355, 23776507, 28425880, 27588606, 5, 57971102, 116036316 >>,
       << 3635366, 112297593, 43852655, 66046209, 2, 4067647, 94128320 >>,
       << 48869586, 89879076, 53726853, 124934729, 2, 16687044, 12857392 >>,
       << 12764703, 103098391, 30105945, 76516338, 5, 12313673, 85801712 >>,
       << 31046444, 16764226, 58685758, 129068169, 2, 29738000, 121334318 >> >>

\* the draws of 150 passes after random.seed(0)
DrawsAfterSeed0 ==
    << << 56668191, 25853374, 50865458, 126852122, 5, 2716860, 84484472 >>,
       << 64791251, 101419929, 32610055, 94283533, 4, 64947958, 31983880 >>,
       << 24028286, 106258969, 59838333, 128051288, 3, 33868961, 76455364 >>,
       << 18913817, 76487044, 50721161, 73472848, 4, 66253843, 61052037 >>,
       << 35739740, 65953616, 47323308, 121481622, 3, 20813651, 6627895 >>,
       << 48978179, 72057634, 60320016, 57074332, 4, 31684961, 37568460 >>,
       << 6757943, 90851398, 29136778, 88328465, 3, 64867855, 37079236 >>,
       << 32011584, 29708648, 58069966, 34987450, 4, 4179512, 54024502 >>,
       << 61637135, 103931450, 61471349, 942322, 2, 48298563, 123486431 >>,
       << 26764594, 114773164, 55354409, 52683663, 2, 41063718, 33123449 >>,
       << 55570385, 125332700, 22356320, 83477445, 4, 47220651, 125525199 >>,
       << 4226803, 12822295, 61540101, 38085001, 3, 16013243, 121020437 >>,
       << 64930527, 9562636, 53900461, 103548303, 5, 6121399, 5398627 >>,
       << 66653970, 21478500, 58726113, 101196183, 5, 7318748, 20229751 >>,
       << 36994918, 86643628, 47416533, 75484769, 4, 54657945, 128999995 >>,
       << 36257819, 13636645, 64682109, 120757509, 4, 29862708, 6149325 >>,
       << 40016133, 120657376, 25830278, 88385517, 3, 19483683, 12339221 >>,
       << 12709836, 122236595, 12531206, 69321605, 4, 31979453, 71745096 >>,
       << 6028010, 112657257, 50841938, 75848078, 3, 61967051, 2593191 >>,
       << 56536548, 72494237, 60275377, 114039622, 5, 56228183, 114439631 >>,
       << 35203561, 18497492, 35016740, 121576344, 3, 57008038, 14441914 >>,
       << 60065048, 45598752, 39580887, 55382482, 5, 38902673, 85577949 >>,
       << 30236778, 33061543, 44308317, 43029990, 4, 5527957, 88873935 >>,
       << 41123178, 7740990, 32644717, 106506780, 4, 56712196, 12776108 >>,
       << 16309844, 68196633, 49089410, 85297913, 2, 47334104, 14794856 >>,
       << 24968536, 120432424, 11440838, 22316123, 5, 54755001, 4173665 >>,
       << 6751656, 52554193, 9821951, 124508593, 3, 3035606, 121944879 >>,
       << 38511497, 109669735, 61070140, 129957638, 2, 1791591, 75460140 >>,
       << 42614122, 79760268, 40690682, 55706137, 2, 26253619, 6142598 >>,
       << 24839670, 123067216, 65801358, 74896588, 2, 40634697, 1452001 >>,
       << 13058777, 131602581, 65142031, 79522120, 2, 32160826, 14131550 >>,
       << 48798561, 53737194, 4099337, 129987799, 2, 36523020, 28562796 >>,
       << 41647759, 6811564, 56096477, 84551792, 2, 14819601, 71938802 >>,
       << 43414450, 20203897, 23507830, 29264071, 3, 4096488, 100907337 >>,
       << 31348646, 2642660, 40029425, 73881573, 5, 13378540, 84566111 >>,
       << 24062238, 127802028, 49096731, 31555672, 3, 46821657, 112249008 >>,
       << 13650928, 64863998, 51495875, 71004596, 3, 56735484, 10868553 >>,
       << 22972205, 102641277, 16823342, 74974884, 5, 44668050, 78840801 >>,
       << 886089, 31650245, 45719972, 27508285, 4, 43549189, 23968043 >>,
       << 26081339, 56214489, 44131876, 16839806, 3, 37621243, 113469194 >>,
       << 834587, 30732786, 49766214, 5306552, 4, 49594532, 3066639 >>,
       << 36528663, 18849750, 9048798, 83223742, 5, 23637457, 40945510 >>,
       << 19319159, 112300205, 24105584, 39612864, 3, 48024401, 87932582 >>,
       << 26039395, 117338901, 27811120, 55626723, 2, 102288, 107010246 >>,
       << 12905674, 113989954, 22441317, 77851636, 3, 14971841, 42775149 >>,
       << 30073852, 92519505, 47670779, 125857533, 5, 2116981, 26995686 >>,
       << 58498004, 47098988, 38082424, 28066708, 2, 11118259, 29887079 >>,
       << 4287337, 84505288, 47077953, 10582166, 5, 35404833, 59387687 >>,
       << 32699840, 128046387, 37675246, 107641100, 2, 59315857, 69720082 >>,
       << 33190881, 21873725, 20941874, 56219567, 5, 3345846, 54294148 >>,
       << 55211799, 58721351, 65375903, 121629107, 5, 12616553, 36813376 >>,
       << 67069964, 131737234, 42485867, 65670838, 2, 56200210, 48691128 >>,
       << 8759166, 66224468, 988465, 94074334, 5, 21218288, 67336551 >>,
       << 14329397, 68067937, 48138808, 50650671, 2, 65783104, 55212570 >>,
       << 45349613, 35456698, 41074783, 6562196, 3, 7979505, 40826324 >>,
       << 43571465, 13322208, 58629915, 87403661, 4, 46207137, 65667042 >>,
       << 12228654, 6723012, 31917343, 57306816, 5, 42120147, 5458998 >>,
       << 1466026, 85544597, 61329523, 30398851, 2, 57804884, 84321534 >>,
       << 8953701, 110969002, 34954693, 121955141, 4, 7724857, 58509791 >>,
       << 10364302, 18683766, 57125732, 68355366, 2, 2728866, 13806691 >>,
       << 45700919, 84534981, 37470619, 21120047, 4, 62977561, 105190982 >>,
       << 61059078, 124113669, 2818876, 56798252, 5, 47805512, 110336599 >>,
       << 60579852, 97889308, 42959148, 96330789, 4, 58479384, 36099789 >>,
       << 11964726, 81057045, 25204674, 106510189, 4, 597073, 9291688 >>,
       << 10134993, 85320426, 22374658, 22649984, 4, 48217680, 6288604 >>,
       << 22699973, 119414647, 41643607, 69502333, 2, 18094035, 78105359 >>,
       << 10027140, 65895137, 39154745, 86538950, 4, 26494041, 66391002 >>,
       << 36808158, 8700056, 19690210, 74819431, 5, 49024483, 83195266 >>,
       << 62663175, 70347293, 20661461, 12051869, 2, 20311884, 27056223 >>,
       << 56073464, 89155515, 20080683, 94940360, 2, 6670643, 104745527 >>,
       << 60978976, 32290926, 31809913, 89729956, 4, 8343296, 32150952 >>,
       << 7785169, 46949045, 33402398, 28624301, 2, 20260375, 22486966 >>,
       << 49308304, 46111204, 60022153, 10446440, 3, 42059946, 104990971 >>,
       << 25204166, 54097696, 65401649, 66538421, 2, 4418090, 54208699 >>,
       << 5682078, 80399122, 50322895, 14834999, 2, 25824289, 67635736 >>,
       << 6581803, 26428004, 37344378, 101938614, 4, 30101297, 61750401 >>,
       << 32790652, 120010027, 39251216, 47942999, 3, 28389604, 72723409 >>,
       << 24718305, 81882065, 66334364, 67048911, 4, 39273985, 52150308 >>,
       << 11179069, 28938753, 12881211, 91168759, 2, 4285434, 55162190 >>,
       << 57953801, 124343241, 47110701, 1853476, 5, 50495286, 45427397 >>,
       << 13535047, 7979934, 33358975, 93815078, 4, 13907102, 43016598 >>,
       << 2825378, 134019118, 63616609, 53514837, 3, 41836678, 9821683 >>,
       << 7021579, 80394408, 30763243, 25369295, 4, 36667696, 122606994 >>,
       << 10155877, 74138267, 66349855, 40013020, 5, 9959090, 104951828 >>,
       << 27239949, 109948716, 45629295, 28403080, 5, 45588283, 128650824 >>,
       << 59578033, 88748809, 55937486, 33449801, 5, 42618476, 112076376 >>,
       << 58700056, 80664271, 36427300, 40921012, 3, 651268, 89940662 >>,
       << 47351593, 131705605, 50132930, 127440272, 4, 54902995, 21597302 >>,
       << 2380234, 102348224, 9956732, 125794442, 4, 40438909, 119733391 >>,
       << 10462631, 123636896, 25434602, 39120990, 4, 48192999, 47403903 >>,
       << 54160569, 98678979, 4453285, 120792319, 2, 34663593, 125419441 >>,
       << 61439122, 69754015, 4452987, 82214442, 3, 2726769, 20162743 >>,
       << 1025768, 50928831, 56636840, 30104304, 4, 57841357, 10783727 >>,
       << 53730406, 77095970, 58297168, 111137893, 5, 65001529, 92027852 >>,
       << 33889955, 92760056, 60471158, 35554790, 2, 38511930, 6083209 >>,
       << 45538152, 120403043, 54030016, 101871145, 2, 50127998, 95721847 >>,
       << 60785915, 50641574, 13831461, 19439031, 5, 55411561, 132375489 >>,
       << 32360804, 56740006, 53085809, 132354370, 5, 40763931, 39351863 >>,
       << 15674690, 124239754, 58034184, 120665728, 2, 44089486, 126517324 >>,
       << 16152, 116819446, 12211727, 87405406, 4, 22326167, 4403740 >>,
       << 33118896, 124814663, 17583027, 130388967, 4, 51840265, 94494190 >>,
       << 25780522, 121469562, 25748290, 71286978, 3, 43015765, 129890839 >>,
       << 8544355, 16035777, 19266172, 48952605, 4, 3726356, 130316159 >>,
       << 2411478, 99410401, 28042515, 76564830, 5, 59724304, 57936772 >>,
       << 40397301, 115238586, 5477401, 45200759, 3, 54377540, 66216713 >>,
       << 23674117, 27591151, 2360875, 108164111, 5, 25949857, 30795072 >>,
       << 3156325, 73919105, 31600839, 119329516, 3, 1357483, 2178720 >>,
       << 40151250, 108541905, 8905477, 42276322, 4, 7066081, 114090416 >>,
       << 36852414, 43553133, 23264494, 13084458, 5, 52574222, 119213521 >>,
       << 52174523, 100013660, 7448877, 59141472, 2, 40944442, 114139925 >>,
       << 31352483, 108335908, 42433782, 129782873, 4, 43652449, 8343228 >>,
       << 65061065, 45803787, 47890018, 108853090, 4, 52919801, 56984254 >>,
       << 8530148, 131430634, 61188742, 93123325, 4, 61531272, 50048723 >>,
       << 58554813, 131368746, 45701568, 133103591, 2, 34829990, 124851490 >>,
       << 52713284, 66829767, 12692129, 69671376, 5, 29835232, 24936421 >>,
       << 50775655, 12782732, 30566090, 23927921, 2, 64189463, 2995800 >>,
       << 60527331, 62699112, 2683057, 99734851, 4, 60469878, 1788853 >>,
       << 63403330, 102009713, 44728806, 38202174, 3, 15411902, 6273082 >>,
       << 52099472, 122097478, 59370275, 126753347, 5, 34031356, 20489113 >>,
       << 63450461, 7613158, 9777118, 95695243, 5, 61933467, 72748159 >>,
       << 62797439, 74139498, 27893208, 71331543, 2, 27861013, 51930096 >>,
       << 10479516, 116385516, 64059024, 2060298, 5, 28929712, 113173603 >>,
       << 27985705, 69131138, 33327924, 61691994, 4, 48489024, 84059618 >>,
       << 5270632, 23656077, 4719730, 75254403, 4, 46424244, 69080355 >>,
       << 23182428, 90454543, 11939181, 668688, 3, 54962609, 24548588 >>,
       << 4732356, 107145276, 59957414, 9616105, 3, 216902, 80852141 >>,
       << 44225982, 45215210, 49130498, 62965714, 2, 50195874, 67591012 >>,
       << 19680543, 91880768, 46269312, 1654234, 3, 57658299, 9521904 >>,
       << 12548800, 97579514, 7542434, 99099250, 4, 47478211, 64368911 >>,
       << 17328773, 8734735, 1874769, 64862009, 3, 24309506, 22482352 >>,
       << 31767349, 131594248, 19638200, 19887486, 4, 12351087, 106905721 >>,
       << 66635866, 72531865, 6884056, 102893181, 4, 10496031, 92381319 >>,
       << 60241970, 76968958, 63463402, 75513309, 3, 21199114, 34113613 >>,
       << 16296628, 82990659, 50657690, 79453165, 4, 24995496, 95280183 >>,
       << 44506297, 70213029, 57779027, 75982924, 2, 26427549, 5229197 >>,
       << 47121799, 4913117, 8859730, 95310136, 4, 36962030, 95076437 >>,
       << 49719535, 129278274, 9548482, 39666473, 5, 20000327, 109854931 >>,
       << 23794395, 5674436, 16646924, 29850771, 4, 42751333, 63681743 >>,
       << 35514500, 70991589, 25261907, 27422441, 2, 27999527, 131664675 >>,
       << 48867366, 60482691, 21519866, 96723830, 3, 24937424, 19683811 >>,
       << 63910518, 31600728, 6110697, 63771428, 3, 53453352, 74397911 >>,
       << 18587158, 74635709, 37458932, 40637494, 3, 53395647, 114259423 >>,
       << 29941584, 129403889, 26761465, 12440687, 5, 28972003, 78835279 >>,
       << 16640157, 64393122, 30430315, 22843045, 3, 23848305, 98142375 >>,
       << 42380383, 42768715, 5804876, 32432907, 3, 19778883, 123692 >>,
       << 55712018, 46908539, 30137810, 108631501, 5, 521882, 14679002 >>,
       << 20036030, 74789958, 51582171, 132795188, 4, 36588297, 40880071 >>,
       << 10483821, 28468188, 47398590, 117531276, 5, 6211129, 112620669 >>,
       << 33398712, 51008765, 64486121, 15593598, 5, 18796413, 42417204 >>,
       << 66036138, 1450852, 8108872, 18124654, 2, 16992, 84327375 >> >>

\* the draws of 150 passes after random.seed(12345)
DrawsAfterSeed12345 ==
    << << 27958886, 49169676, 682441, 55040993, 4, 57387362, 91832553 >>,
       << 62531012, 12996393, 18135824, 37984165, 5, 10850686, 25035890 >>,
       << 8339409, 58664846, 29053861, 17521453, 3, 41055144, 37126038 >>,
       << 12536542, 90925892, 49536309, 131403503, 2, 35637675, 132784282 >>,
       << 49351221, 27656864, 39262190, 33818530, 3, 9941921, 13805245 >>,
       << 48249068, 5223890, 12748763, 56174835, 4, 21611659, 1578482 >>,
       << 30792133, 22784652, 1803217, 64926648, 5, 231835, 447837 >>,
       << 63098337, 111662439, 58436182, 10992903, 3, 19231721, 6677307 >>,
       << 43791238, 94927667, 7106365, 126536210, 3, 49431195, 92274847 >>,
       << 15610937, 131544805, 35138038, 107105634, 4, 54165210, 69810063 >>,
       << 15589933, 75148659, 58598786, 100611279, 3, 49472130, 53814546 >>,
       << 50737590, 104360007, 44943466, 79579594, 4, 39500855, 96212316 >>,
       << 34778456, 61473644, 64334751, 75824228, 2, 65751771, 11015133 >>,
       << 20221691, 65987652, 58019036, 122957188, 2, 10084614, 64760739 >>,
       << 15375511, 23469803, 36180957, 22949008, 3, 25904897, 21727214 >>,
       << 861822, 3309757, 4086255, 47759854, 5, 5272256, 93153843 >>,
       << 66746761, 53625190, 61778396, 12045023, 2, 51835281, 114912833 >>,
       << 24679439, 14451943, 45547200, 34394862, 2, 32264348, 41731585 >>,
       << 4128876, 927293, 42017124, 100112384, 4, 51807229, 108051248 >>,
       << 64831335, 95350183, 61914917, 131032122, 3, 24446892, 118705941 >>,
       << 44482874, 46879692, 8011565, 104459174, 3, 5371814, 100320574 >>,
       << 11069721, 127003856, 64913194, 89627625, 3, 13640026, 10975187 >>,
       << 10922334, 86456059, 10076029, 36045548, 2, 34870660, 113797862 >>,
       << 223594, 9834238, 213739, 44136447, 5, 59454365, 79514238 >>,
       << 56053563, 107877554, 62666865, 120692810, 2, 17735442, 33901195 >>,
       << 50333214, 94364332, 4437001, 120155285, 5, 27965485, 79318488 >>,
       << 16325424, 61668660, 58953349, 79478442, 2, 25025808, 89286051 >>,
       << 11808516, 26492911, 11935466, 79053159, 3, 64436608, 27732785 >>,
       << 34440643, 46431502, 28020129, 21807967, 2, 4543671, 43200619 >>,
       << 30903836, 49899793, 13090555, 109262882, 3, 50274573, 76170288 >>,
       << 35632274, 127101579, 15652490, 22165256, 4, 8412826, 36121946 >>,
       << 34247575, 113640941, 51766653, 45029854, 2, 17444020, 52157659 >>,
       << 28647162, 2955475, 24424961, 53635392, 2, 42230819, 118032903 >>,
       << 4560315, 10480617, 24911974, 59078747, 2, 18450241, 117188058 >>,
       << 29802274, 113138928, 24742052, 94072625, 4, 30143373, 40961483 >>,
       << 17739605, 20927811, 49474068, 33051640, 5, 3379892, 17792538 >>,
       << 29900904, 69078688, 14739468, 23157354, 3, 61806728, 67245433 >>,
       << 45375316, 132177147, 41983470, 121103457, 2, 2053866, 7453167 >>,
       << 40430165, 125637398, 12613162, 57911433, 5, 32918775, 12202766 >>,
       << 18295434, 23429703, 13995782, 127599345, 4, 48680251, 88268649 >>,
       << 56793672, 93165778, 5065626, 41396218, 4, 24723277, 52624129 >>,
       << 58047680, 2714638, 28135921, 79840924, 3, 5493316, 76695003 >>,
       << 54865270, 20569689, 15585775, 22336004, 5, 13482525, 929868 >>,
       << 10059762, 7628034, 63867957, 101602569, 2, 53103951, 134027127 >>,
       << 22885920, 26315894, 21431114, 58148726, 2, 16197249, 73793983 >>,
       << 32523468, 9966665, 38815123, 80950591, 4, 38241906, 102834738 >>,
       << 24084930, 77737967, 65614154, 49743917, 4, 2551001, 124572809 >>,
       << 58482093, 6158865, 6307275, 35406954, 3, 36874597, 100945187 >>,
       << 44110389, 131622462, 27523778, 65814890, 2, 52198112, 34895979 >>,
       << 10173828, 106598433, 35676376, 21834421, 3, 30700598, 94931282 >>,
       << 29502004, 1648817, 24947811, 44463381, 2, 58252474, 26067363 >>,
       << 23724832, 45241634, 54778671, 103408647, 2, 21423666, 98666135 >>,
       << 29369744, 3069493, 21408571, 88128840, 5, 53729979, 20029899 >>,
       << 8419488, 25482427, 37941306, 108886130, 2, 38269437, 7370267 >>,
       << 32626554, 131007528, 7965633, 73578653, 3, 2232052, 130196238 >>,
       << 3436969, 20726632, 56035955, 81637297, 2, 30900015, 100613660 >>,
       << 31480569, 71060984, 28410939, 14767533, 3, 22113858, 50005907 >>,
       << 52651877, 10880383, 25716162, 106578118, 3, 67059079, 66694207 >>,
       << 46038912, 66480605, 31646500, 129107635, 3, 60403584, 13990102 >>,
       << 37157774, 105654544, 62468663, 36987498, 3, 10696535, 112257168 >>,
       << 49147082, 97673671, 56994651, 118046580, 2, 43661567, 13080800 >>,
       << 4913217, 52633493, 60378263, 118651812, 2, 37619931, 54213213 >>,
       << 8208083, 6339343, 17800842, 38040543, 3, 14333817, 132914732 >>,
       << 18630992, 15121287, 33398091, 24838476, 5, 44504337, 27081535 >>,
       << 37728098, 16719051, 43666170, 97348226, 2, 34771244, 69130739 >>,
       << 34418601, 128418880, 36252296, 61086873, 4, 16027823, 93932084 >>,
       << 33099156, 113072388, 5530993, 95395863, 5, 7450952, 89104250 >>,
       << 16724959, 29810730, 20382290, 95605521, 2, 11489777, 81736204 >>,
       << 48897749, 108505581, 65081437, 128893572, 5, 17597466, 38273176 >>,
       << 59110215, 109806631, 52167042, 120660494, 3, 42219088, 67484619 >>,
       << 34663088, 49135198, 48352098, 18540990, 2, 54112637, 63068440 >>,
       << 32166322, 127415082, 22300237, 113670180, 3, 53040932, 41983587 >>,
       << 20281227, 1887364, 48796417, 26689158, 4, 14453199, 129934945 >>,
       << 37664014, 133279500, 16805890, 82573858, 2, 61742234, 53275320 >>,
       << 13692109, 16862550, 61624820, 104670384, 2, 1110552, 77264787 >>,
       << 37813327, 106168581, 52965642, 129437468, 3, 22037835, 14306924 >>,
       << 8617047, 56210507, 40901275, 41807893, 4, 34239062, 86289681 >>,
       << 1945832, 81209400, 28771879, 93504242, 5, 53081263, 110491207 >>,
       << 42977728, 48843461, 44325809, 121490131, 5, 38305139, 104855571 >>,
       << 66459033, 85898020, 33693586, 18956220, 2, 44179416, 99139558 >>,
       << 65183167, 124127291, 47106863, 32383199, 3, 60353372, 28319813 >>,
       << 3188025, 114320873, 6598680, 116280587, 2, 17874944, 111634381 >>,
       << 21120257, 126696164, 27697374, 49120508, 5, 31997957, 73329747 >>,
       << 65857841, 26156390, 46196772, 110218817, 2, 49625011, 28917216 >>,
       << 15426693, 66456005, 41652966, 489573, 5, 10436939, 42073297 >>,
       << 961180, 23887597, 10745801, 123585295, 4, 61291880, 76802323 >>,
       << 25988734, 77873122, 20937824, 21642908, 4, 28850576, 69740236 >>,
       << 23768663, 83569570, 46352293, 107410545, 5, 1794387, 90388859 >>,
       << 45050362, 93426516, 33408138, 76310755, 4, 57967743, 46303388 >>,
       << 55977283, 38103880, 55439531, 60405474, 4, 53448559, 103849481 >>,
       << 8877754, 100589255, 30294546, 46434398, 2, 31291015, 117782138 >>,
       << 24669073, 15485896, 27478021, 132646604, 5, 15128191, 41386532 >>,
       << 34105555, 89929684, 32989922, 19829493, 3, 59129505, 94987755 >>,
       << 21450683, 61371484, 6542053, 10062368, 3, 35824804, 70214923 >>,
       << 51044695, 47470678, 66123629, 46040671, 2, 52403773, 93079180 >>,
       << 8399259, 91973293, 4305167, 80558017, 3, 76942, 6418773 >>,
       << 22619797, 17504266, 39437365, 16710198, 4, 63712626, 41168792 >>,
       << 65405774, 38456867, 20839818, 23267330, 4, 26286694, 68546602 >>,
       << 38991222, 75233150, 39507492, 29405381, 5, 43064849, 21174573 >>,
       << 15816253, 84229274, 6672882, 78598414, 4, 45111855, 4082410 >>,
       << 33580227, 8635094, 9459018, 35421673, 3, 47057228, 85100759 >>,
       << 14159368, 124338994, 17126817, 129261770, 4, 3164995, 72450933 >>,
       << 62864904, 47061854, 61249382, 9485569, 3, 47761963, 132002481 >>,
       << 2995160, 54268494, 55282380, 76461853, 2, 2401440, 9660524 >>,
       << 25366936, 28479282, 38893394, 95351373, 2, 11621942, 131172392 >>,
       << 10362309, 112259708, 34227374, 34673906, 3, 33013149, 55023589 >>,
       << 7029579, 91029186, 50182596, 72133289, 3, 1505108, 71931199 >>,
       << 54155436, 124197102, 23778552, 8868037, 4, 22955756, 131533514 >>,
       << 14217765, 19766107, 13141448, 103448744, 4, 27230628, 71855777 >>,
       << 22250652, 78014155, 16863978, 31710308, 3, 37415285, 48027632 >>,
       << 8858603, 92922292, 1651502, 29819280, 3, 59321615, 127471695 >>,
       << 17191739, 9149737, 51696590, 112988658, 3, 37278833, 49284008 >>,
       << 40270187, 84077914, 62874544, 113520845, 4, 19449000, 47147257 >>,
       << 153307, 34731477, 37890933, 24732197, 5, 37117155, 13580243 >>,
       << 25281072, 6766897, 60409775, 61830983, 2, 42971134, 36188750 >>,
       << 11398438, 31133377, 53896010, 100784886, 3, 5033660, 111552533 >>,
       << 56086706, 106477965, 7319356, 53470758, 2, 27665920, 77314867 >>,
       << 64102924, 50889609, 48257136, 3049442, 5, 42711076, 8124736 >>,
       << 27123624, 17320952, 19166861, 75990613, 3, 54079970, 61751094 >>,
       << 49806788, 11832615, 42753367, 6570168, 5, 9884571, 85796284 >>,
       << 16369366, 121056280, 8035015, 45044267, 4, 44533791, 26582286 >>,
       << 37461227, 64496581, 53059835, 116771823, 4, 14327528, 25067868 >>,
       << 26206597, 87895071, 351616, 19573662, 5, 30259766, 28082835 >>,
       << 32573775, 133605100, 7055886, 98948383, 5, 14772395, 39447770 >>,
       << 3089486, 23506208, 11719927, 34039806, 3, 67061252, 81792273 >>,
       << 61269764, 50397757, 5168959, 127726272, 3, 11907295, 75968494 >>,
       << 11768442, 43079146, 312639, 55557984, 2, 8656417, 965117 >>,
       << 61168694, 63550686, 50815335, 61070450, 2, 17544896, 8189386 >>,
       << 55636565, 35776928, 20037642, 64210828, 2, 32315118, 40828385 >>,
       << 39235233, 15083081, 22713436, 109780874, 2, 1682035, 67984685 >>,
       << 43434590, 94753864, 6696745, 20745363, 5, 65470147, 71804613 >>,
       << 4930049, 92851713, 63884574, 77577295, 5, 22009809, 65404386 >>,
       << 31511683, 116755393, 44232387, 9645960, 5, 57227033, 16678128 >>,
       << 27569578, 57405698, 9673733, 96138164, 4, 47224101, 62731343 >>,
       << 15115577, 93294003, 63612339, 68038214, 5, 23075720, 7952274 >>,
       << 64400865, 46847967, 32077141, 127894779, 4, 8039145, 107939009 >>,
       << 18340254, 72203717, 35300483, 80696973, 2, 6981566, 66339405 >>,
       << 27012053, 44004411, 21705205, 66156102, 5, 43538124, 12231788 >>,
       << 16101439, 50314936, 17995766, 28693933, 2, 9884878, 8164843 >>,
       << 11464225, 92707349, 15672275, 60346487, 2, 12634788, 48816632 >>,
       << 27367158, 111208525, 860514, 12610981, 5, 28239955, 33716063 >>,
       << 22226411, 37817479, 26161504, 95306716, 4, 61719510, 94494798 >>,
       << 3618790, 79508844, 44028937, 47818792, 2, 24590326, 29732292 >>,
       << 780311, 87748042, 51600742, 3277792, 5, 44419293, 103699486 >>,
       << 54929352, 44009655, 6975738, 121574710, 5, 29153602, 121212064 >>,
       << 8821858, 60501824, 2809081, 5737842, 3, 54455483, 10379446 >>,
       << 29446262, 130244951, 63730251, 105149654, 5, 1841075, 65863720 >>,
       << 21355624, 57587406, 27647748, 89035792, 4, 27734416, 37676472 >>,
       << 36696368, 32786172, 17720087, 42619016, 4, 28453072, 5351744 >>,
       << 12044448, 52541810, 16683710, 99923435, 5, 49082985, 51172439 >> >>

DrawsAfter(seed) ==
    CASE seed = 42 -> DrawsAfterSeed42
      [] seed = 0 -> DrawsAfterSeed0
      [] seed = 12345 -> DrawsAfterSeed12345

\* a seed() that leaves the generator as it finds it
RandomSeedKept(state, seed) == state

\* random.seed(seed): the new state depends on the seed alone
RandomSeed(state, seed) == [seed |-> seed, passes |-> 0]

\* random.random() > 0.5 for the draw (hi * 2^27 + lo) / 2^53: the draw is
\* above 2^52 = 33554432 * 2^27
MoreThanHalf(hi, lo) == hi > 33554432 \/ (hi = 33554432 /\ lo > 0)

\* one pass of the loop body: angle, distance, size and colour are drawn in
\* this order.  The dot is the ellipse [x - size, y - size, x + size,
\* y + size] with x = center_x + dist * cos(angle) and y = center_y + dist *
\* sin(angle), where angle = 2 * pi * u for the angle draw u and dist =
\* radius * 0.8 * v for the distance draw v; the op keeps u, v and radius.
PowderDot(state, center_x, center_y, radius, color) ==
    LET d == DrawsAfter(state.seed)[state.passes + 1]
    IN  [ops |-> << [op     |-> "dot",
                     center |-> << center_x, center_y >>,
                     angle  |-> << d[1], d[2] >>,
                     dist   |-> << d[3], d[4] >>,
                     reach  |-> radius,
                     \* randint(2, 5)
                     size   |-> d[5],
                     \* lighter if random() > 0.5 else darker
                     fill   |-> IF MoreThanHalf(d[6], d[7])
                                THEN Lighten(color, 30)
                                ELSE Darken(color, 20)] >>,
         rng |-> [state EXCEPT !.passes = @ + 1]]

\* the texture dots of the powder circle: n passes of the loop body, one
\* after the other (the passes are taken in two halves, the second starting
\* from the generator state the first leaves)
RECURSIVE PowderDots(_, _, _, _, _, _)
PowderDots(n, state, center_x, center_y, radius, color) ==
    IF n = 0 THEN [ops |-> << >>, rng |-> state]
    ELSE IF n = 1 THEN PowderDot(state, center_x, center_y, radius, color)
    ELSE LET first  == PowderDots(n \div 2, state, center_x, center_y, radius,
                                  color)
             second == PowderDots(n - (n \div 2), first.rng, center_x,
                                  center_y, radius, color)
         IN  [ops |-> first.ops \o second.ops, rng |-> second.rng]

\* draw_matcha_powder_circle: the disc, then the dots; returns the drawing
\* operations and the generator's state afterwards
DrawMatchaPowderCircle(state, center_x, center_y, radius, color) ==
    LET dots == PowderDots(DotCount, RandomSeed(state, PowderSeed),
                           center_x, center_y, radius, color)
    IN  [ops |-> << [op   |-> "ellipse",
                     box  |-> << center_x - radius, center_y - radius,
                                 center_x + radius, center_y + radius >>,
                     fill |-> color] >> \o dots.ops,
         rng |-> dots.rng]

\* draw_tea_leaves(draw, x, y, size, color) with x = x100/100, y = y100/100:
\* the leaf ellipse and its stem
DrawTeaLeaves(x100, y100, size, color) ==
    << [op |-> "leaf", at100 |-> << x100, y100 >>,
        extent |-> << size * 2, size >>, fill |-> Darken(color, 30)],
       [op |-> "stem", at100 |-> << x100 + 100 * size,
                                    y100 + 100 * (size \div 2) >>,
        length |-> size + 10 - (size \div 2), width |-> 2,
        fill |-> Darken(color, 30)] >>

(***************************************************************************)
(* Fonts.  ImageFont.truetype raises when the file is missing;             *)
(* ImageFont.load_default never does.                                      *)
(***************************************************************************)
BoldPath == "/usr/share/fonts/truetype/dejavu/DejaVuSans-Bold.ttf"
RegularPath == "/usr/share/fonts/truetype/dejavu/DejaVuSans.ttf"
DefaultFont == [face |-> "default", size |-> 0]
FontPresent(f, path) == IF path = BoldPath THEN f.bold ELSE f.regular
Truetype(f, path, size) ==
    IF FontPresent(f, path) THEN [raised |-> FALSE,
                                  font |-> [face |-> path, size |-> size]]
    ELSE [raised |-> TRUE, font |-> DefaultFont]

\* the font pair loaded without the except branch
LoadFontsUnguarded(f) ==
    LET large == Truetype(f, BoldPath, 36)
        small == Truetype(f, RegularPath, 24)
    IN  [raised |-> large.raised \/ small.raised,
         font_large |-> large.font, font_small |-> small.font]

\* the try/except of generate_product_image: both fonts, or both defaults
LoadFonts(f) ==
    LET large == Truetype(f, BoldPath, 36)
        small == Truetype(f, RegularPath, 24)
    IN  IF large.raised \/ small.raised
        THEN [raised |-> FALSE,
              font_large |-> DefaultFont, font_small |-> DefaultFont]
        ELSE [raised |-> FALSE,
              font_large |-> large.font, font_small |-> small.font]

\* the try/except of main's placeholder
LoadPlaceholderFont(f) ==
    LET t == Truetype(f, RegularPath, 48)
    IN  IF t.raised THEN [raised |-> FALSE, font |-> DefaultFont]
        ELSE [raised |-> FALSE, font |-> t.font]

(***************************************************************************)
(* generate_product_image(product, size)                                   *)
(***************************************************************************)
\* An image is its size and the drawing operations applied to the buffer, in
\* order.  A text is placed at x = (width - text_width) // 2 + dx, text_width
\* being the font's measure of the text.
TextOp(text, font, dx, y, fill) ==
    [op |-> "text", text |-> text, font |-> font, dx |-> dx, y |-> y,
     fill |-> fill]

\* center_x, center_y = width // 2, height // 2 - 50
PowderCenter(width, height) == << width \div 2, height \div 2 - 50 >>

\* powder_radius = min(width, height) // 4
PowderRadius(width, height) == Min(width, height) \div 4

GenerateProductImage(product, size, f, state) ==
    LET width  == size[1]
        height == size[2]
        grade  == product.grade
        colors == PaletteFor(grade)
        background == << [op |-> "gradient", color1 |-> colors.secondary,
                          color2 |-> colors.primary,
                          direction |-> "diagonal"] >>
        center == PowderCenter(width, height)
        powder == DrawMatchaPowderCircle(state, center[1], center[2],
                                         PowderRadius(width, height),
                                         colors.accent)
        leaves == DrawTeaLeaves(width * 10, height * 10, 30, colors.primary)
                  \o DrawTeaLeaves(width * 80, height * 15, 25, colors.primary)
                  \o DrawTeaLeaves(width * 15, height * 80, 20, colors.primary)
                  \o DrawTeaLeaves(width * 75, height * 85, 28, colors.primary)
        loaded == LoadFonts(f)
        text_y == height - 150
        texts  == << TextOp(product.name, loaded.font_large, 2, text_y + 2,
                            << 0, 0, 0, 128 >>),
                     TextOp(product.name, loaded.font_large, 0, text_y,
                            << 255, 255, 255 >>),
                     TextOp("Grade: " \o grade, loaded.font_small, 0,
                            text_y + 50, << 255, 255, 255, 200 >>) >>
        border == << [op |-> "rectangle",
                      box |-> << 0, 0, width - 1, height - 1 >>,
                      outline |-> colors.accent, width |-> 3] >>
    IN  IF loaded.raised
        THEN \* the exception leaves the function: no image is returned
             [raised |-> TRUE, rng |-> powder.rng,
              image |-> [size |-> size, ops |-> << >>]]
        ELSE [raised |-> FALSE, rng |-> powder.rng,
              image |-> [size |-> size,
                         ops  |-> background \o powder.ops \o leaves
                                  \o texts \o border]]

\* main's placeholder: a grey gradient and the caption
PlaceholderImage(f) ==
    LET loaded == LoadPlaceholderFont(f)
    IN  [raised |-> loaded.raised,
         image  |-> [size |-> << 800, 800 >>,
                     ops  |-> << [op |-> "gradient",
                                  color1 |-> << 200, 200, 200 >>,
                                  color2 |-> << 150, 150, 150 >>,
                                  direction |-> "diagonal"],
                                 [op |-> "text", text |-> "Image Coming Soon",
                                  font |-> loaded.font, dx |-> 0, y |-> 380,
                                  fill |-> << 100, 100, 100 >>] >>]]

(***************************************************************************)
(* Image.thumbnail(box): Pillow's preserve_aspect_ratio.  The two          *)
(* candidates floor(number) and ceil(number) are those of the exact        *)
(* quotient (the double differs from it by less than the distance to the   *)
(* next integer unless the quotient is an integer, and then both agree on  *)
(* the winner); the keys that choose between them are doubles.             *)
(***************************************************************************)
ThumbBox == << 400, 400 >>

\* a thumbnail that crops to the box without keeping the proportions
ThumbnailSizeClamped(w, h, X, Y) == << Min(w, X), Min(h, Y) >>

ThumbnailSize(w, h, X, Y) ==
    IF X >= w /\ Y >= h THEN << w, h >>
    ELSE LET aspect == FloatDiv(w, h)
         IN  IF BigLeq(aspect, FloatDiv(X, Y))
             THEN \* x = round_aspect(y * aspect, |aspect - n / y|)
                  LET num == Y * w
                      lo  == num \div h
                      hi  == IF num % h = 0 THEN lo ELSE lo + 1
                      key(n) == FloatAbsDiff(aspect, FloatDiv(n, Y))
                      n == IF BigLeq(key(lo), key(hi)) THEN lo ELSE hi
                  IN  << Max(n, 1), Y >>
             ELSE \* y = round_aspect(x / aspect, 0 if n == 0 else
                  \*                              |aspect - x / n|)
                  LET num == X * h
                      lo  == num \div w
                      hi  == IF num % w = 0 THEN lo ELSE lo + 1
                      key(n) == IF n = 0 THEN BigInt(0)
                                ELSE FloatAbsDiff(aspect, FloatDiv(X, n))
                      n == IF BigLeq(key(lo), key(hi)) THEN lo ELSE hi
                  IN  << X, Max(n, 1) >>

\* im.thumbnail(box) on an image value: resized in place when the size changes
Thumbnail(im, box) ==
    LET to == ThumbnailSize(im.size[1], im.size[2], box[1], box[2])
    IN  IF to = im.size THEN im
        ELSE [size |-> to,
              ops  |-> im.ops \o << [op |-> "resize", to |-> to] >>]

(***************************************************************************)
(* create_spec_sheet(product, output_path).  Texts are ASCII: a character  *)
(* outside ASCII is written <U+hhhh>, lengths are hundredths of an inch.   *)
(***************************************************************************)
\* PRODUCTS of generate_pdfs.py
PDF_PRODUCTS ==
    <<
      [slug |-> "premium-ceremonial-uji", name |-> "Premium Ceremonial Uji",
       grade |-> "Ceremonial", region |-> "Uji, Kyoto", origin |-> "Japan",
       harvest |-> "First Harvest (Ichibancha)",
       cultivation |-> "Shade-grown (20+ days)", processing |-> "Stone-ground",
       mesh |-> "1000+ mesh", color |-> "Vibrant green",
       flavor |-> "Rich umami, subtle sweetness, no bitterness",
       aroma |-> "Fresh, grassy, vegetal", caffeine |-> "~34mg per gram",
       l_theanine |-> "~20mg per gram", catechins |-> "~100mg per gram",
       shelf_life |-> "12 months (unopened), 1 month (opened)",
       storage |-> "Cool, dry place away from light. Refrigerate after opening.",
       certifications |-> << "JAS Organic", "USDA Organic", "EU Organic" >>,
       uses |-> << "Traditional tea ceremony", "Usucha preparation", "Premium beverages" >>,
       moq |-> "5 kg", lead_time |-> "14 days",
       price_range |-> "$80-120 per kg"],
      [slug |-> "organic-culinary-nishio", name |-> "Organic Culinary Nishio",
       grade |-> "Culinary", region |-> "Nishio, Aichi", origin |-> "Japan",
       harvest |-> "Second/Third Harvest",
       cultivation |-> "Shade-grown (14 days)", processing |-> "Stone-ground",
       mesh |-> "800 mesh", color |-> "Yellow-green",
       flavor |-> "Strong, slightly bitter, robust",
       aroma |-> "Earthy, vegetal", caffeine |-> "~32mg per gram",
       l_theanine |-> "~14mg per gram", catechins |-> "~120mg per gram",
       shelf_life |-> "18 months (unopened), 2 months (opened)",
       storage |-> "Cool, dry place away from light.",
       certifications |-> << "JAS Organic", "USDA Organic" >>,
       uses |-> << "Baking", "Smoothies", "Lattes", "Ice cream", "Cooking" >>,
       moq |-> "10 kg", lead_time |-> "10 days",
       price_range |-> "$25-45 per kg"],
      [slug |-> "classic-usucha-blend", name |-> "Classic Usucha Blend",
       grade |-> "Premium", region |-> "Uji, Kyoto", origin |-> "Japan",
       harvest |-> "First Harvest (Ichibancha)",
       cultivation |-> "Shade-grown (18 days)", processing |-> "Stone-ground",
       mesh |-> "900 mesh", color |-> "Bright green",
       flavor |-> "Balanced umami and sweetness",
       aroma |-> "Fresh, slightly sweet", caffeine |-> "~33mg per gram",
       l_theanine |-> "~18mg per gram", catechins |-> "~105mg per gram",
       shelf_life |-> "12 months (unopened), 1 month (opened)",
       storage |-> "Cool, dry place away from light. Refrigerate after opening.",
       certifications |-> << "JAS Organic" >>,
       uses |-> << "Daily usucha", "Premium lattes", "Desserts" >>,
       moq |-> "5 kg", lead_time |-> "12 days",
       price_range |-> "$50-70 per kg"],
      [slug |-> "first-harvest-shincha", name |-> "First Harvest Shincha",
       grade |-> "Ceremonial", region |-> "Shizuoka", origin |-> "Japan",
       harvest |-> "First Harvest (Ichibancha) - Spring",
       cultivation |-> "Shade-grown (21 days)",
       processing |-> "Stone-ground, fresh processed", mesh |-> "1000+ mesh",
       color |-> "Brilliant emerald green",
       flavor |-> "Exceptionally sweet, deep umami",
       aroma |-> "Fresh spring grass, floral notes",
       caffeine |-> "~35mg per gram", l_theanine |-> "~22mg per gram",
       catechins |-> "~95mg per gram",
       shelf_life |-> "6 months (unopened), 2 weeks (opened)",
       storage |-> "Refrigerate immediately. Consume quickly for best flavor.",
       certifications |-> << "JAS Organic", "Single Origin" >>,
       uses |-> << "Tea ceremony", "Special occasions", "Koicha preparation" >>,
       moq |-> "2 kg", lead_time |-> "7 days (seasonal availability)",
       price_range |-> "$120-180 per kg"],
      [slug |-> "daily-matcha-kagoshima", name |-> "Daily Matcha Kagoshima",
       grade |-> "Culinary", region |-> "Kagoshima", origin |-> "Japan",
       harvest |-> "Second Harvest", cultivation |-> "Partial shade (10 days)",
       processing |-> "Stone-ground", mesh |-> "600 mesh",
       color |-> "Green with yellow tones",
       flavor |-> "Mild, slightly astringent", aroma |-> "Light, grassy",
       caffeine |-> "~30mg per gram", l_theanine |-> "~12mg per gram",
       catechins |-> "~130mg per gram",
       shelf_life |-> "24 months (unopened), 3 months (opened)",
       storage |-> "Cool, dry place.", certifications |-> << >>,
       uses |-> << "Daily beverages", "Commercial food production", "Bulk cooking" >>,
       moq |-> "25 kg", lead_time |-> "7 days",
       price_range |-> "$15-25 per kg"],
      [slug |-> "competition-grade-uji", name |-> "Competition Grade Uji",
       grade |-> "Competition", region |-> "Uji, Kyoto", origin |-> "Japan",
       harvest |-> "First Harvest, Hand-picked",
       cultivation |-> "Traditional shade-grown (25+ days)",
       processing |-> "Hand-picked, stone-ground by master",
       mesh |-> "1200+ mesh (ultra-fine)", color |-> "Deep vibrant jade green",
       flavor |-> "Complex umami, natural sweetness, zero bitterness",
       aroma |-> "Intensely fresh, complex vegetal notes",
       caffeine |-> "~36mg per gram", l_theanine |-> "~25mg per gram",
       catechins |-> "~90mg per gram",
       shelf_life |-> "6 months (unopened), 2 weeks (opened)",
       storage |-> "Refrigerate. Use nitrogen-flushed container.",
       certifications |-> << "JAS Organic", "Award Winner", "Single Estate" >>,
       uses |-> << "Competition", "Tea ceremony masters", "Ultra-premium service" >>,
       moq |-> "1 kg", lead_time |-> "21 days (limited availability)",
       price_range |-> "$200-400 per kg"],
      [slug |-> "organic-ceremonial-kyoto",
       name |-> "Organic Ceremonial Kyoto", grade |-> "Ceremonial",
       region |-> "Kyoto", origin |-> "Japan",
       harvest |-> "First Harvest (Ichibancha)",
       cultivation |-> "Organic shade-grown (20 days)",
       processing |-> "Stone-ground", mesh |-> "1000 mesh",
       color |-> "Vivid green", flavor |-> "Smooth umami, gentle sweetness",
       aroma |-> "Clean, fresh, slightly marine",
       caffeine |-> "~34mg per gram", l_theanine |-> "~19mg per gram",
       catechins |-> "~98mg per gram",
       shelf_life |-> "12 months (unopened), 1 month (opened)",
       storage |-> "Cool, dry place away from light. Refrigerate after opening.",
       certifications |-> << "JAS Organic", "USDA Organic", "EU Organic", "Kosher" >>,
       uses |-> << "Tea ceremony", "Premium beverages", "Health-conscious consumers" >>,
       moq |-> "5 kg", lead_time |-> "14 days",
       price_range |-> "$90-130 per kg"],
      [slug |-> "cafe-blend-matcha", name |-> "Cafe Blend Matcha",
       grade |-> "Culinary", region |-> "Nishio, Aichi", origin |-> "Japan",
       harvest |-> "Blended harvests", cultivation |-> "Mixed cultivation",
       processing |-> "Stone-ground, blended for consistency",
       mesh |-> "700 mesh", color |-> "Consistent green",
       flavor |-> "Bold, stands up to milk and sweeteners",
       aroma |-> "Robust, earthy", caffeine |-> "~31mg per gram",
       l_theanine |-> "~13mg per gram", catechins |-> "~115mg per gram",
       shelf_life |-> "18 months (unopened), 3 months (opened)",
       storage |-> "Cool, dry place.",
       certifications |-> << "Food Service Grade" >>,
       uses |-> << "Cafe lattes", "Smoothies", "Commercial beverages", "Desserts" >>,
       moq |-> "20 kg", lead_time |-> "7 days",
       price_range |-> "$20-35 per kg"]
    >>

\* " <U+201A><U+00C4><U+00A2> ": the separator literal of the two join calls
JoinSeparator == " <U+201A><U+00C4><U+00A2> "
\* the prefix of the certifications paragraph
CertPrefix == "<U+201A><U+00FA><U+00EC> "
LogoText == "<U+F8FF><U+00FC><U+00E7><U+00B5>"

RECURSIVE Join(_, _)
\* sep.join(list)
Join(list, sep) ==
    IF list = << >> THEN ""
    ELSE IF Len(list) = 1 THEN list[1]
    ELSE list[1] \o sep \o Join(Tail(list), sep)

Paragraph(text, style) == [kind |-> "Paragraph", text |-> text, style |-> style]
Spacer(height) == [kind |-> "Spacer", height |-> height]
Table(data, colWidths, style) ==
    [kind |-> "Table", data |-> data, colWidths |-> colWidths, style |-> style]

HeaderBlocks(product) ==
    << Table(<< << Paragraph(LogoText, "Logo"),
                   Paragraph("<b>" \o product.name \o "</b>", "ProductTitle"),
                   Paragraph("<b>" \o product.grade \o " Grade</b>",
                             "GradeLabel") >> >>,
             << 100, 450, 150 >>, "header"),
       Spacer(20) >>

SubtitleBlocks(product) ==
    << Paragraph("<i>Origin: " \o product.region \o ", " \o product.origin
                 \o "</i>", "Subtitle"),
       Spacer(30) >>

OverviewBlocks(product) ==
    << Paragraph("PRODUCT OVERVIEW", "SectionHeader"),
       Table(<< << "Harvest:", product.harvest >>,
                << "Cultivation:", product.cultivation >>,
                << "Processing:", product.processing >>,
                << "Mesh Size:", product.mesh >> >>,
             << 150, 550 >>, "labelled"),
       Spacer(20) >>

SensoryBlocks(product) ==
    << Paragraph("SENSORY PROFILE", "SectionHeader"),
       Table(<< << "Color:", product.color >>,
                << "Flavor:", product.flavor >>,
                << "Aroma:", product.aroma >> >>,
             << 150, 550 >>, "labelled"),
       Spacer(20) >>

NutritionBlocks(product) ==
    << Paragraph("NUTRITIONAL INFORMATION (per gram)", "SectionHeader"),
       Table(<< << "Caffeine", "L-Theanine", "Catechins" >>,
                << product.caffeine, product.l_theanine,
                   product.catechins >> >>,
             << 233, 233, 234 >>, "nutrition"),
       Spacer(20) >>

StorageBlocks(product) ==
    << Paragraph("STORAGE & SHELF LIFE", "SectionHeader"),
       Table(<< << "Shelf Life:", product.shelf_life >>,
                << "Storage:", product.storage >> >>,
             << 150, 550 >>, "labelled"),
       Spacer(20) >>

\* if product['certifications']: header, joined entries, spacer
CertificationBlocks(product) ==
    IF product.certifications # << >>
    THEN << Paragraph("CERTIFICATIONS", "SectionHeader"),
            Paragraph(CertPrefix
                      \o Join(product.certifications, JoinSeparator),
                      "SpecBodyText"),
            Spacer(20) >>
    ELSE << >>

UsesBlocks(product) ==
    << Paragraph("RECOMMENDED USES", "SectionHeader"),
       Paragraph(Join(product.uses, JoinSeparator), "SpecBodyText"),
       Spacer(20) >>

OrderingBlocks(product) ==
    << Paragraph("ORDERING INFORMATION", "SectionHeader"),
       Table(<< << "Minimum Order:", product.moq >>,
                << "Lead Time:", product.lead_time >>,
                << "Price Range:", product.price_range >> >>,
             << 150, 550 >>, "ordering"),
       Spacer(30) >>

\* the footer with its two paragraphs in the other order
FooterBlocksNoticeFirst(date) ==
    << Paragraph("<i>For the most current information, please contact your "
                 \o "sales representative.</i>", "SpecSmallText"),
       Paragraph("<i>Document generated: " \o date
                 \o " | Matcha Trading Platform</i>", "SpecSmallText") >>

\* date is datetime.now().strftime('%Y-%m-%d')
FooterBlocks(date) ==
    << Paragraph("<i>Document generated: " \o date
                 \o " | Matcha Trading Platform</i>", "SpecSmallText"),
       Paragraph("<i>For the most current information, please contact your "
                 \o "sales representative.</i>", "SpecSmallText") >>

\* the story create_spec_sheet hands to doc.build
SpecSheetStory(product, date) ==
    HeaderBlocks(product) \o SubtitleBlocks(product) \o OverviewBlocks(product)
    \o SensoryBlocks(product) \o NutritionBlocks(product)
    \o StorageBlocks(product) \o CertificationBlocks(product)
    \o UsesBlocks(product) \o OrderingBlocks(product) \o FooterBlocks(date)

(***************************************************************************)
(* State.                                                                  *)
(***************************************************************************)
VARIABLES
    \* create_gradient: arguments, loop counters, pixel buffer, position
    garg, gx, gy, gpixels, gpc,
    \* rendering: products still to compose, output size, which font files
    \* exist, state of the global random generator, the product and image of
    \* the last generate_product_image call, its thumbnail, the placeholder,
    \* every (product, size, image) composed so far
    queue, csize, fonts, rng, cprod, image, thumbnail, placeholder, composed,
    cpc,
    \* create_spec_sheet: the record, the path argument, the day of the run,
    \* the story so far,
    \* the position in the function, the document built
    sprod, output_path, today, story, spc, sdoc,
    \* main(): which driver runs, its catalog, the number of the run, the
    \* position in main, the index of the record at hand, whether the output
    \* directory exists, the files in it (path -> content), the lines
    \* printed by this run, the writes this run completed (in order), the
    \* set of paths present at the end of each completed run (in order), the
    \* steps this run took as they are seen from outside (in order)
    driver, catalog, run, pc, idx, dirExists, fs, log, writes, finished, events

gradVars == << garg, gx, gy, gpixels, gpc >>
compVars == << queue, csize, fonts, rng, cprod, image, thumbnail, placeholder,
               composed, cpc >>
sheetVars == << sprod, output_path, today, story, spc, sdoc >>
mainVars == << driver, catalog, run, pc, idx, dirExists, fs, log, writes,
              finished, events >>
vars == << gradVars, compVars, sheetVars, mainVars >>

\* the values a specification gives the state it does not use
NoProduct == [slug |-> "", name |-> "", grade |-> ""]
NoImage == [size |-> << 0, 0 >>, ops |-> << >>]
NoDoc == [path |-> "", story |-> << >>]

GradIdle ==
    /\ garg = << >>
    /\ gx = 0
    /\ gy = 0
    /\ gpixels = << >>
    /\ gpc = "idle"

CompIdle ==
    /\ queue = << >>
    /\ csize = << 0, 0 >>
    /\ fonts = [bold |-> TRUE, regular |-> TRUE]
    /\ rng = [seed |-> 0, passes |-> 0]
    /\ cprod = NoProduct
    /\ image = NoImage
    /\ thumbnail = NoImage
    /\ placeholder = NoImage
    /\ composed = << >>
    /\ cpc = "idle"

SheetIdle ==
    /\ sprod = NoProduct
    /\ output_path = ""
    /\ today = ""
    /\ story = << >>
    /\ spc = "idle"
    /\ sdoc = NoDoc

MainIdle ==
    /\ driver = "none"
    /\ catalog = << >>
    /\ run = 0
    /\ pc = "idle"
    /\ idx = 0
    /\ dirExists = FALSE
    /\ fs = << >>
    /\ log = << >>
    /\ writes = << >>
    /\ finished = << >>
    /\ events = << >>

(***************************************************************************)
(* SpecGradient: create_gradient(width, height, color1, color2, direction) *)
(***************************************************************************)
Black == << 0, 0, 0 >>
\* colours the gradient is run on
GradColors ==
    { Black, << 255, 255, 255 >>, << 200, 200, 200 >>, << 202, 198, 200 >>,
      << 5, 200, 29 >> }
\* "radial" stands for any direction the function does not name
GradDirections == { "diagonal", "vertical", "horizontal", "radial" }

\* Image.new("RGB", (width, height)): a black buffer
NewImage(width, height) ==
    [p \in (0..(width - 1)) \X (0..(height - 1)) |-> Black]

GradientInit ==
    /\ garg \in [width : 1..MaxDim, height : 1..MaxDim,
                 color1 : GradColors, color2 : GradColors,
                 direction : GradDirections]
    /\ gx = 0
    /\ gy = 0
    /\ gpixels = NewImage(garg.width, garg.height)
    /\ gpc = "loop"

\* one pass of the inner loop body: draw.point((x, y), fill=(r, g, b))
GradientPoint ==
    /\ gpc = "loop"
    /\ gy < garg.height
    /\ gpixels' = [gpixels EXCEPT ![<< gx, gy >>] =
                     GradientPixel(garg.width, garg.height, garg.color1,
                                   garg.color2, garg.direction, gx, gy)]
    /\ IF gx + 1 < garg.width
       THEN gx' = gx + 1 /\ gy' = gy
       ELSE gx' = 0 /\ gy' = gy + 1
    /\ UNCHANGED << garg, gpc >>

\* return image
GradientReturn ==
    /\ gpc = "loop"
    /\ gy = garg.height
    /\ gpc' = "done"
    /\ UNCHANGED << garg, gx, gy, gpixels >>

(***************************************************************************)
(* SpecCompose: generate_product_image on a sequence of products, each     *)
(* followed by main's thumbnail step, then main's placeholder rendering.   *)
(***************************************************************************)
\* longest sequence of products composed one after the other
MaxQueue == 2


\* records of the catalog, and one whose grade the palette table lacks
CompProducts ==
    { [slug |-> "cafe-blend-matcha", name |-> "Cafe Blend Matcha",
       grade |-> "Culinary"],
      [slug |-> "classic-usucha-blend", name |-> "Classic Usucha Blend",
       grade |-> "Premium"],
      [slug |-> "reserve-lot", name |-> "Reserve Lot", grade |-> "Reserve"] }
\* output sizes: main's 800x800, sizes inside and outside the thumbnail box,
\* extreme proportions, and proportions whose thumbnail falls on a tie
CompSizes ==
    { << 800, 800 >>, << 400, 400 >>, << 401, 300 >>, << 1200, 500 >>,
      << 1, 1 >>, << 3, 480 >>, << 1500, 1 >>, << 7, 800 >>, << 999, 1000 >> }
\* states the global generator may be in when the first image is composed
RngStarts ==
    { [seed |-> 0, passes |-> 0], [seed |-> 12345, passes |-> 0] }

RECURSIVE SeqsUpTo(_, _)
\* the sequences over S of length 1..n
SeqsUpTo(S, n) ==
    IF n = 0 THEN { }
    ELSE LET shorter == SeqsUpTo(S, n - 1)
         IN  { << x >> : x \in S } \cup shorter
             \cup { q \o << x >> : q \in shorter, x \in S }

ComposeInit ==
    /\ queue \in SeqsUpTo(CompProducts, MaxQueue)
    /\ csize \in CompSizes
    /\ fonts \in [bold : BOOLEAN, regular : BOOLEAN]
    /\ rng \in RngStarts
    /\ cprod = NoProduct
    /\ image = NoImage
    /\ thumbnail = NoImage
    /\ placeholder = NoImage
    /\ composed = << >>
    /\ cpc = "compose"

\* image = generate_product_image(product, size)
Compose ==
    /\ cpc = "compose"
    /\ queue # << >>
    /\ LET r == GenerateProductImage(Head(queue), csize, fonts, rng)
       IN  /\ rng' = r.rng
           /\ cprod' = Head(queue)
           /\ queue' = Tail(queue)
           /\ IF r.raised
              THEN /\ cpc' = "raised"
                   /\ UNCHANGED << image, composed >>
              ELSE /\ cpc' = "thumbnail"
                   /\ image' = r.image
                   /\ composed' = Append(composed,
                                         [product |-> Head(queue),
                                          size |-> csize, image |-> r.image])
    /\ UNCHANGED << csize, fonts, thumbnail, placeholder >>

\* thumbnail = image.copy(); thumbnail.thumbnail((400, 400))
MakeThumbnail ==
    /\ cpc = "thumbnail"
    /\ thumbnail' = Thumbnail(image, ThumbBox)
    /\ cpc' = "compose"
    /\ UNCHANGED << queue, csize, fonts, rng, cprod, image, placeholder,
                    composed >>

\* the placeholder block of main, after the loop
RenderPlaceholder ==
    /\ cpc = "compose"
    /\ queue = << >>
    /\ LET r == PlaceholderImage(fonts)
       IN  IF r.raised
           THEN cpc' = "raised" /\ UNCHANGED placeholder
           ELSE cpc' = "done" /\ placeholder' = r.image
    /\ UNCHANGED << queue, csize, fonts, rng, cprod, image, thumbnail,
                    composed >>

InitCompose == ComposeInit /\ GradIdle /\ SheetIdle /\ MainIdle
NextCompose ==
    \/ Compose /\ UNCHANGED << gradVars, sheetVars, mainVars >>
    \/ MakeThumbnail /\ UNCHANGED << gradVars, sheetVars, mainVars >>
    \/ RenderPlaceholder /\ UNCHANGED << gradVars, sheetVars, mainVars >>
SpecCompose == InitCompose /\ [][NextCompose]_vars

(***************************************************************************)
(* SpecSheet: create_spec_sheet, one section of the story at a time.       *)
(***************************************************************************)
\* two records of the document catalog, without their lists
\* the records of the shipped catalog
DocBases == { PDF_PRODUCTS[i] : i \in DOMAIN PDF_PRODUCTS }
CertNames == { "JAS Organic", "USDA Organic", "Food Service Grade" }
\* certification lists: none, or up to MaxCerts entries
CertLists == { << >> } \cup SeqsUpTo(CertNames, MaxCerts)
\* the shipped records, each also with every other certification list
DocProducts ==
    DocBases \cup { [b EXCEPT !.certifications = c] :
                      b \in DocBases, c \in CertLists }
\* days datetime.now() may give.  The local clock is read unguarded: whatever
\* it gave before, the next reading may be any day, an earlier one included
\* (the clock was set back, or the time zone changed).
Dates == { "2026-10-30", "2027-01-01" }

\* OUTPUT_DIR of generate_images.py and of generate_pdfs.py
IMAGES_DIR == "/home/claude/matcha-setup/images"
DOCS_DIR == "/home/claude/matcha-setup/docs"

\* the paths create_spec_sheet is called with: the one main gives the
\* record, and one that is not made from the record
OutputPaths(product) ==
    { DOCS_DIR \o "/" \o product.slug \o "-spec.pdf",
      DOCS_DIR \o "/sheet-1.pdf" }

SheetInit ==
    /\ sprod \in DocProducts
    /\ output_path \in OutputPaths(sprod)
    /\ today \in Dates
    /\ story = << >>
    /\ spc = "header"
    /\ sdoc = NoDoc

\* the appends of one section, moving on to the next
AppendSection(at, blocks, next) ==
    /\ spc = at
    /\ story' = story \o blocks
    /\ spc' = next
    /\ UNCHANGED << sprod, output_path, today, sdoc >>

AppendHeader == AppendSection("header", HeaderBlocks(sprod), "subtitle")
AppendSubtitle == AppendSection("subtitle", SubtitleBlocks(sprod), "overview")
AppendOverview == AppendSection("overview", OverviewBlocks(sprod), "sensory")
AppendSensory == AppendSection("sensory", SensoryBlocks(sprod), "nutrition")
AppendNutrition ==
    AppendSection("nutrition", NutritionBlocks(sprod), "storage")
AppendStorage ==
    AppendSection("storage", StorageBlocks(sprod), "certifications")
AppendCertifications ==
    AppendSection("certifications", CertificationBlocks(sprod), "uses")
AppendUses == AppendSection("uses", UsesBlocks(sprod), "ordering")
AppendOrdering == AppendSection("ordering", OrderingBlocks(sprod), "footer")
AppendFooter == AppendSection("footer", FooterBlocks(today), "build")

\* doc.build(story): the document is laid out from the blocks it is handed.
\* build takes each block off the list as it places it, so the local list is
\* empty when build returns.
BuildDoc ==
    /\ spc = "build"
    /\ sdoc' = [path |-> output_path, story |-> story]
    /\ story' = << >>
    /\ spc' = "done"
    /\ UNCHANGED << sprod, output_path, today >>

InitSheet == SheetInit /\ GradIdle /\ CompIdle /\ MainIdle
NextSheet ==
    \/ AppendHeader /\ UNCHANGED << gradVars, compVars, mainVars >>
    \/ AppendSubtitle /\ UNCHANGED << gradVars, compVars, mainVars >>
    \/ AppendOverview /\ UNCHANGED << gradVars, compVars, mainVars >>
    \/ AppendSensory /\ UNCHANGED << gradVars, compVars, mainVars >>
    \/ AppendNutrition /\ UNCHANGED << gradVars, compVars, mainVars >>
    \/ AppendStorage /\ UNCHANGED << gradVars, compVars, mainVars >>
    \/ AppendCertifications /\ UNCHANGED << gradVars, compVars, mainVars >>
    \/ AppendUses /\ UNCHANGED << gradVars, compVars, mainVars >>
    \/ AppendOrdering /\ UNCHANGED << gradVars, compVars, mainVars >>
    \/ AppendFooter /\ UNCHANGED << gradVars, compVars, mainVars >>
    \/ BuildDoc /\ UNCHANGED << gradVars, compVars, mainVars >>
SpecSheet == InitSheet /\ [][NextSheet]_vars

(***************************************************************************)
(* Spec: the batch drivers main() of the two scripts, run MaxRuns times    *)
(* over one catalog and one output directory.                              *)
(***************************************************************************)
OutputDir == IF driver = "images" THEN IMAGES_DIR ELSE DOCS_DIR
\* os.path.join(OUTPUT_DIR, filename)
JoinPath(dir, filename) ==
    IF Len(filename) > 0 /\ SubSeq(filename, 1, 1) = "/" THEN filename
    ELSE IF dir = "" \/ SubSeq(dir, Len(dir), Len(dir)) = "/"
    THEN dir \o filename
    ELSE dir \o "/" \o filename

\* a thumbnail name that carries the number of the run
ThumbNamePerRun(slug) ==
    IF run = 1 THEN slug \o "-thumb.jpg"
    ELSE slug \o "-thumb-" \o ToString(run) \o ".jpg"

FullName(slug) == slug \o ".jpg"
ThumbName(slug) == slug \o "-thumb.jpg"
PlaceholderName == "placeholder.jpg"
SpecName(slug) == slug \o "-spec.pdf"

\* the check mark of each script's "Created" line, as its literal is stored
CreatedMark ==
    IF driver = "images" THEN "<U+2713>" ELSE "<U+201A><U+00FA><U+00EC>"
CreatedLine(filename) == "  " \o CreatedMark \o " Created: " \o filename
ImagesSummary ==
    "\n<U+2705> Generated " \o ToString(Len(catalog) * 2 + 1)
    \o " images in " \o IMAGES_DIR
DocsSummary ==
    "\n<U+201A><U+00FA><U+00D6> Generated " \o ToString(Len(catalog))
    \o " PDF specification sheets in " \o DOCS_DIR

\* slugs given to the records of an edited catalog
EditedSlugs == { "matcha", "matcha-thumb", "placeholder" }

NoDuplicate(q) == \A i, j \in DOMAIN q : i # j => q[i] # q[j]
\* lists of up to MaxCatalog pairwise distinct slugs
SlugLists ==
    { q \in { << >> } \cup SeqsUpTo(EditedSlugs, MaxCatalog) : NoDuplicate(q) }

\* the first records of PRODUCTS with the slugs of q in place of their own
WithSlugs(PRODUCTS, q) ==
    [i \in DOMAIN q |-> [PRODUCTS[i] EXCEPT !.slug = q[i]]]

\* the catalogs main is run on: PRODUCTS as shipped, and edited ones
Catalogs(PRODUCTS) ==
    { PRODUCTS } \cup { WithSlugs(PRODUCTS, q) : q \in SlugLists }

\* the content of a file whose write was cut short
PartialFile == [format |-> "partial"]
JpegFile(im, quality) == [format |-> "JPEG", quality |-> quality, image |-> im]
PdfFile(blocks) == [format |-> "PDF", story |-> blocks]

\* the directory after path was written with content
Written(path, content) ==
    [q \in DOMAIN fs \cup { path } |-> IF q = path THEN content ELSE fs[q]]

\* what a script's run meets at its start: generate_images.py the font
\* files and the state of the random generator, generate_pdfs.py the day.
\* Neither script reads what the other one meets.
FontsAtStart ==
    IF driver = "images" THEN [bold : BOOLEAN, regular : BOOLEAN]
    ELSE { [bold |-> TRUE, regular |-> TRUE] }
RngAtStart ==
    IF driver = "images" THEN RngStarts ELSE { [seed |-> 0, passes |-> 0] }
DaysAtStart(day) == IF driver = "pdfs" THEN Dates ELSE { day }

MainInit ==
    /\ driver \in { "images", "pdfs" }
    /\ catalog \in Catalogs(IF driver = "images" THEN IMAGE_PRODUCTS
                             ELSE PDF_PRODUCTS)
    /\ run = 1
    /\ pc = "start"
    /\ idx = 1
    /\ dirExists \in BOOLEAN
    /\ fs = << >>
    /\ log = << >>
    /\ writes = << >>
    /\ finished = << >>
    /\ events = << >>
    /\ fonts \in FontsAtStart
    /\ rng \in RngAtStart
    /\ today \in IF driver = "pdfs" THEN Dates ELSE { "" }
    /\ image = NoImage
    /\ thumbnail = NoImage
    /\ placeholder = NoImage
    /\ queue = << >>
    /\ csize = << 0, 0 >>
    /\ cprod = NoProduct
    /\ composed = << >>
    /\ cpc = "idle"
    /\ sprod = NoProduct
    /\ output_path = ""
    /\ story = << >>
    /\ spc = "idle"
    /\ sdoc = NoDoc

restVars == << gradVars, queue, csize, cprod, composed, cpc, sprod, story,
               spc, sdoc, driver, catalog, output_path >>

\* what only a new start or a reading of the clock changes
keepVars == << restVars, fonts, today >>

\* a completed write of content to path, and the line printed after it
SaveAndLog(path, filename, content) ==
    /\ fs' = Written(path, content)
    /\ writes' = Append(writes, [path |-> path, content |-> content])
    /\ log' = Append(log, CreatedLine(filename))

\* one step of main() as it is seen from outside: op is "mkdir", "compose",
\* "write" or "print", rec the index of the record at hand (0 outside the
\* loop), arg the directory, the slug, the path or the line
Event(op, rec, arg) == [op |-> op, rec |-> rec, arg |-> arg]

\* os.makedirs(OUTPUT_DIR, exist_ok=True); print(...)
StartEvents(line) ==
    << Event("mkdir", 0, OutputDir), Event("print", 0, line) >>

\* the composer is called on the record at hand
ComposeEvent == Event("compose", idx, catalog[idx].slug)

SaveEventsPrintFirst(rec, path, filename) ==
    << Event("print", rec, CreatedLine(filename)), Event("write", rec, path) >>

\* the file is saved, then its line is printed
SaveEvents(rec, path, filename) ==
    << Event("write", rec, path), Event("print", rec, CreatedLine(filename)) >>

\* os.makedirs(OUTPUT_DIR, exist_ok=True); print(...)
ImgStart ==
    /\ driver = "images"
    /\ pc = "start"
    /\ dirExists' = TRUE
    /\ log' = Append(log, "Generating product images...")
    /\ events' = StartEvents("Generating product images...")
    /\ pc' = "compose"
    /\ UNCHANGED << keepVars, run, idx, fs, writes, finished, rng, image,
                    thumbnail, placeholder >>

\* image = generate_product_image(product, (800, 800))
ImgCompose ==
    /\ driver = "images"
    /\ pc = "compose"
    /\ idx <= Len(catalog)
    /\ LET r == GenerateProductImage(catalog[idx], << 800, 800 >>, fonts, rng)
       IN  /\ rng' = r.rng
           /\ IF r.raised
              THEN pc' = "aborted" /\ UNCHANGED image
              ELSE pc' = "save_full" /\ image' = r.image
    /\ events' = Append(events, ComposeEvent)
    /\ UNCHANGED << keepVars, run, idx, dirExists, fs, log, writes, finished,
                    thumbnail, placeholder >>

\* image.save(filepath, "JPEG", quality=90); print(...)
ImgSaveFull ==
    /\ driver = "images"
    /\ pc = "save_full"
    /\ SaveAndLog(JoinPath(IMAGES_DIR, FullName(catalog[idx].slug)),
                  FullName(catalog[idx].slug), JpegFile(image, 90))
    /\ events' = events \o SaveEvents(idx,
                      JoinPath(IMAGES_DIR, FullName(catalog[idx].slug)),
                      FullName(catalog[idx].slug))
    /\ pc' = "thumbnail"
    /\ UNCHANGED << keepVars, run, idx, dirExists, finished, rng, image,
                    thumbnail, placeholder >>

\* thumbnail = image.copy(); thumbnail.thumbnail((400, 400))
ImgThumbnail ==
    /\ driver = "images"
    /\ pc = "thumbnail"
    /\ thumbnail' = Thumbnail(image, ThumbBox)
    /\ pc' = "save_thumb"
    /\ UNCHANGED << keepVars, events, run, idx, dirExists, fs, log, writes,
                    finished,
                    rng, image, placeholder >>

\* thumbnail.save(thumb_filepath, "JPEG", quality=85); print(...); next record
ImgSaveThumb ==
    /\ driver = "images"
    /\ pc = "save_thumb"
    /\ SaveAndLog(JoinPath(IMAGES_DIR, ThumbName(catalog[idx].slug)),
                  ThumbName(catalog[idx].slug), JpegFile(thumbnail, 85))
    /\ events' = events \o SaveEvents(idx,
                      JoinPath(IMAGES_DIR, ThumbName(catalog[idx].slug)),
                      ThumbName(catalog[idx].slug))
    /\ idx' = idx + 1
    /\ pc' = "compose"
    /\ UNCHANGED << keepVars, run, dirExists, finished, rng, image, thumbnail,
                    placeholder >>

\* after the loop: the placeholder image is rendered
ImgPlaceholder ==
    /\ driver = "images"
    /\ pc = "compose"
    /\ idx > Len(catalog)
    /\ LET r == PlaceholderImage(fonts)
       IN  IF r.raised
           THEN pc' = "aborted" /\ UNCHANGED placeholder
           ELSE pc' = "save_placeholder" /\ placeholder' = r.image
    /\ UNCHANGED << keepVars, events, run, idx, dirExists, fs, log, writes,
                    finished,
                    rng, image, thumbnail >>

\* placeholder.save(..., "JPEG", quality=85); print(...)
ImgSavePlaceholder ==
    /\ driver = "images"
    /\ pc = "save_placeholder"
    /\ SaveAndLog(JoinPath(IMAGES_DIR, PlaceholderName), PlaceholderName,
                  JpegFile(placeholder, 85))
    /\ events' = events \o SaveEvents(0,
                      JoinPath(IMAGES_DIR, PlaceholderName), PlaceholderName)
    /\ pc' = "summary"
    /\ UNCHANGED << keepVars, run, idx, dirExists, finished, rng, image,
                    thumbnail, placeholder >>

\* the last print of a run; main returns
Finish(line) ==
    /\ log' = Append(log, line)
    /\ events' = Append(events, Event("print", 0, line))
    /\ pc' = "done"
    /\ finished' = Append(finished, DOMAIN fs)

ImgSummary ==
    /\ driver = "images"
    /\ pc = "summary"
    /\ Finish(ImagesSummary)
    /\ UNCHANGED << keepVars, run, idx, dirExists, fs, writes, rng, image,
                    thumbnail, placeholder >>

PdfStart ==
    /\ driver = "pdfs"
    /\ pc = "start"
    /\ dirExists' = TRUE
    /\ log' = Append(log, "Generating PDF specification sheets...")
    /\ events' = StartEvents("Generating PDF specification sheets...")
    /\ pc' = "create_sheet"
    /\ UNCHANGED << keepVars, run, idx, fs, writes, finished, rng, image,
                    thumbnail, placeholder >>

\* create_spec_sheet(product, filepath), which reads the clock for its
\* footer; print(...); next record
PdfCreateSheet ==
    /\ driver = "pdfs"
    /\ pc = "create_sheet"
    /\ idx <= Len(catalog)
    /\ today' \in Dates
    /\ SaveAndLog(JoinPath(DOCS_DIR, SpecName(catalog[idx].slug)),
                  SpecName(catalog[idx].slug),
                  PdfFile(SpecSheetStory(catalog[idx], today')))
    /\ events' = Append(events, ComposeEvent)
                  \o SaveEvents(idx,
                        JoinPath(DOCS_DIR, SpecName(catalog[idx].slug)),
                        SpecName(catalog[idx].slug))
    /\ idx' = idx + 1
    /\ pc' = "create_sheet"
    /\ UNCHANGED << restVars, fonts, run, dirExists, finished, rng, image,
                    thumbnail, placeholder >>

PdfSummary ==
    /\ driver = "pdfs"
    /\ pc = "create_sheet"
    /\ idx > Len(catalog)
    /\ Finish(DocsSummary)
    /\ UNCHANGED << keepVars, run, idx, dirExists, fs, writes, rng, image,
                    thumbnail, placeholder >>

\* the path the write at hand goes to
WriteTarget ==
    IF pc = "save_full" THEN JoinPath(IMAGES_DIR, FullName(catalog[idx].slug))
    ELSE IF pc = "save_thumb"
    THEN JoinPath(IMAGES_DIR, ThumbName(catalog[idx].slug))
    ELSE IF pc = "save_placeholder" THEN JoinPath(IMAGES_DIR, PlaceholderName)
    ELSE JoinPath(DOCS_DIR, SpecName(catalog[idx].slug))

\* a write raises: the exception is not caught and ends main (a sheet has
\* read the clock before its document is built).  The file is
\* untouched when it could not be opened, cut short when writing stopped
\* after it was opened for writing.
WriteFails ==
    /\ \/ pc \in { "save_full", "save_thumb", "save_placeholder" }
       \/ pc = "create_sheet" /\ idx <= Len(catalog)
    /\ \/ fs' = fs
       \/ fs' = Written(WriteTarget, PartialFile)
    /\ events' = IF pc = "create_sheet" THEN Append(events, ComposeEvent)
                  ELSE events
    /\ today' \in IF pc = "create_sheet" THEN Dates ELSE { today }
    /\ pc' = "aborted"
    /\ UNCHANGED << restVars, fonts, run, idx, dirExists, log, writes,
                    finished, rng, image, thumbnail, placeholder >>

\* the script is started again on the same catalog and directory, after a
\* run that completed or one that a failing write ended; the font files and
\* the day are those of the new start
Rerun ==
    /\ pc \in { "done", "aborted" }
    /\ run < MaxRuns
    /\ run' = run + 1
    /\ pc' = "start"
    /\ idx' = 1
    /\ log' = << >>
    /\ writes' = << >>
    /\ events' = << >>
    /\ rng' \in RngAtStart
    /\ fonts' \in FontsAtStart
    /\ today' \in DaysAtStart(today)
    /\ image' = NoImage
    /\ thumbnail' = NoImage
    /\ placeholder' = NoImage
    /\ UNCHANGED << restVars, dirExists, fs, finished >>

Init == MainInit /\ GradIdle
Next ==
    \/ ImgStart
    \/ ImgCompose
    \/ ImgSaveFull
    \/ ImgThumbnail
    \/ ImgSaveThumb
    \/ ImgPlaceholder
    \/ ImgSavePlaceholder
    \/ ImgSummary
    \/ PdfStart
    \/ PdfCreateSheet
    \/ PdfSummary
    \/ WriteFails
    \/ Rerun
Spec == Init /\ [][Next]_vars

InitGradient == GradientInit /\ CompIdle /\ SheetIdle /\ MainIdle
NextGradient ==
    \/ GradientPoint /\ UNCHANGED << compVars, sheetVars, mainVars >>
    \/ GradientReturn /\ UNCHANGED << compVars, sheetVars, mainVars >>
SpecGradient == InitGradient /\ [][NextGradient]_vars


\* the last pixel along the axis of the direction, and how far its ratio is
\* from 1: (LastGap / RatioDen)
LastPixel(a) ==
    IF a.direction = "diagonal" THEN << a.width - 1, a.height - 1 >>
    ELSE IF a.direction = "vertical" THEN << 0, a.height - 1 >>
    ELSE << a.width - 1, 0 >>
LastGap(a) == IF a.direction = "diagonal" THEN 2 ELSE 1

\* C2 as stated: a finished gradient has color1 at pixel (0,0) and color2 at
\* the last pixel along the axis, each channel within 1.
C2_BoundaryWithinOne ==
    gpc = "done" =>
        \A c \in 1..3 :
            /\ AbsDiff(gpixels[<< 0, 0 >>][c], garg.color1[c]) <= 1
            /\ AbsDiff(gpixels[LastPixel(garg)][c], garg.color2[c]) <= 1

\* C2 amended: a finished gradient has exactly color1 at pixel (0,0); at the
\* last pixel along the axis each channel is within
\* 1 + |color1 - color2| * (1 - t) of color2, where 1 - t is 2/(width+height)
\* for diagonal, 1/height for vertical and 1/width otherwise.
C2_BoundaryWithinGap ==
    gpc = "done" =>
        \A c \in 1..3 :
            LET den == RatioDen(garg.direction, garg.width, garg.height)
            IN  /\ gpixels[<< 0, 0 >>][c] = garg.color1[c]
                /\ AbsDiff(gpixels[LastPixel(garg)][c], garg.color2[c]) * den
                     <= AbsDiff(garg.color1[c], garg.color2[c]) * LastGap(garg)
                        + den

\* a finished gradient between two different colours whose last pixel has
\* moved off color1 and lies within 1 of color2
C2_Witness ==
    /\ gpc = "done"
    /\ garg.color1 # garg.color2
    /\ gpixels[LastPixel(garg)] # garg.color1
    /\ \A c \in 1..3 :
           AbsDiff(gpixels[LastPixel(garg)][c], garg.color2[c]) <= 1

\* the paths this run has written so far
WrittenPaths == { writes[i].path : i \in DOMAIN writes }

\* C1 as stated: a completed first run of the image driver over N records
\* with distinct slugs leaves exactly 2N+1 files in the directory, no two of
\* its writes going to the same path.
C1_TwoNPlusOneFiles ==
    (driver = "images" /\ pc = "done" /\ run = 1) =>
        /\ Cardinality(DOMAIN fs) = 2 * Len(catalog) + 1
        /\ Cardinality(WrittenPaths) = Len(writes)

\* the content the last completed write of this run gave a path
LastWritten(path) ==
    LET last == CHOOSE i \in DOMAIN writes :
                    /\ writes[i].path = path
                    /\ \A j \in DOMAIN writes :
                           writes[j].path = path => j <= i
    IN  writes[last].content

\* the number of writes the run has completed when main stands at record idx
WritesUpTo ==
    IF driver = "pdfs" THEN { idx - 1 }
    ELSE { 2 * (idx - 1), 2 * (idx - 1) + 1 }

\* C3 as stated: when a write fails and the run aborts, every file the run
\* wrote before is in place with the content it was written with, no later
\* record has been written, and the summary line is not printed.
C3_AbortKeepsEarlierFiles ==
    pc = "aborted" =>
        /\ \A p \in WrittenPaths : p \in DOMAIN fs /\ fs[p] = LastWritten(p)
        /\ Len(writes) \in WritesUpTo
        /\ \A k \in DOMAIN log : log[k] \notin { ImagesSummary, DocsSummary }

\* C4: every completed run over the same catalog leaves the paths in the
\* directory that the first completed run left.
C4_SecondRunSamePaths ==
    \A i \in DOMAIN finished : finished[i] = finished[1]

\* a second run over a catalog of two records has completed, each of its
\* writes going to a path the first run left
C4_Witness ==
    /\ pc = "done"
    /\ Len(finished) = 2
    /\ Len(catalog) = 2
    /\ writes # << >>
    /\ WrittenPaths \subseteq finished[1]

\* the operations of one kind in an image
OpsOf(im, kind) == { k \in DOMAIN im.ops : im.ops[k].op = kind }

\* the palette C5 names for a grade: the grade's own, or the Premium one
ClaimedPalette(grade) ==
    IF grade \in { "Ceremonial", "Premium", "Culinary", "Competition" }
    THEN GRADE_COLORS[grade]
    ELSE [primary |-> << 85, 150, 80 >>, secondary |-> << 160, 200, 120 >>,
          accent |-> << 50, 100, 45 >>]

\* C5: composing never fails on the grade, and every image composed uses its
\* grade's palette, or the Premium palette when the table lacks the grade,
\* for the background gradient, the powder circle, the leaves and the border.
C5_PaletteOrDefault ==
    /\ cpc # "raised"
    /\ \A i \in DOMAIN composed :
           LET im  == composed[i].image
               pal == ClaimedPalette(composed[i].product.grade)
           IN  /\ im.ops[1] = [op |-> "gradient", color1 |-> pal.secondary,
                               color2 |-> pal.primary,
                               direction |-> "diagonal"]
               /\ OpsOf(im, "ellipse") # { }
               /\ \A k \in OpsOf(im, "ellipse") : im.ops[k].fill = pal.accent
               /\ \A k \in OpsOf(im, "dot") :
                      im.ops[k].fill \in { Lighten(pal.accent, 30),
                                           Darken(pal.accent, 20) }
               /\ Cardinality(OpsOf(im, "leaf")) = 4
               /\ \A k \in OpsOf(im, "leaf") \cup OpsOf(im, "stem") :
                      im.ops[k].fill = Darken(pal.primary, 30)
               /\ OpsOf(im, "rectangle") # { }
               /\ \A k \in OpsOf(im, "rectangle") :
                      im.ops[k].outline = pal.accent

\* an image was composed for a grade the table lacks
C5_Witness ==
    \E i \in DOMAIN composed :
        /\ composed[i].product.grade \notin DOMAIN GRADE_COLORS
        /\ composed[i].image.ops # << >>

\* the text operations of an image showing a given text
TextsOf(im, text) ==
    { k \in OpsOf(im, "text") : im.ops[k].text = text }

\* C7: whichever font files are missing, rendering never aborts: every image
\* composed carries the product name and the grade label, the placeholder
\* its caption, and a text whose font file is missing is drawn in the
\* built-in default font.
C7_FontFallback ==
    /\ cpc # "raised"
    /\ \A i \in DOMAIN composed :
           LET im == composed[i].image
               names  == TextsOf(im, composed[i].product.name)
               grades == TextsOf(im, "Grade: " \o composed[i].product.grade)
           IN  /\ names # { }
               /\ grades # { }
               /\ ~fonts.bold =>
                      \A k \in names : im.ops[k].font = DefaultFont
               /\ ~fonts.regular =>
                      \A k \in grades : im.ops[k].font = DefaultFont
    /\ cpc = "done" =>
           /\ TextsOf(placeholder, "Image Coming Soon") # { }
           /\ ~fonts.regular =>
                  \A k \in TextsOf(placeholder, "Image Coming Soon") :
                      placeholder.ops[k].font = DefaultFont

\* rendering finished although the bold font file is missing
C7_Witness ==
    /\ cpc = "done"
    /\ ~fonts.bold
    /\ fonts.regular
    /\ composed # << >>
    /\ placeholder # NoImage

\* C8 as stated: every image composed has exactly one powder circle, centred
\* on (width/2, height/2), of radius min(width, height)/4, in the accent
\* colour.
C8_PowderCircleCentred ==
    \A i \in DOMAIN composed :
        LET im == composed[i].image
            w  == composed[i].size[1]
            h  == composed[i].size[2]
            r  == Min(w, h) \div 4
        IN  /\ Cardinality(OpsOf(im, "ellipse")) = 1
            /\ \A k \in OpsOf(im, "ellipse") :
                   /\ im.ops[k].box = << w \div 2 - r, h \div 2 - r,
                                         w \div 2 + r, h \div 2 + r >>
                   /\ im.ops[k].fill
                        = PaletteFor(composed[i].product.grade).accent

\* C9: once main has made the thumbnail of the image just composed, the
\* thumbnail fits the 400x400 box, its shorter side is within one pixel of
\* the exact proportional length, and the full image is still the image that
\* was composed.
C9_ThumbnailFits ==
    (cpc # "thumbnail" /\ thumbnail # NoImage) =>
        LET w  == image.size[1]
            h  == image.size[2]
            tw == thumbnail.size[1]
            th == thumbnail.size[2]
        IN  /\ tw >= 1 /\ th >= 1
            /\ Max(tw, th) <= 400
            /\ AbsDiff(tw * h, th * w) <= Max(w, h)
            /\ image.size = csize
            /\ image = composed[Len(composed)].image

\* an image that is not square was scaled down
C9_Witness ==
    /\ cpc # "thumbnail"
    /\ thumbnail # NoImage
    /\ thumbnail.size # image.size
    /\ image.size[1] # image.size[2]
    /\ Max(thumbnail.size[1], thumbnail.size[2]) = 400

\* C10: every image composed equals the image the same product and size give
\* when composed first with the generator freshly seeded with 0 - whatever
\* was composed or drawn before - and has exactly 50 texture dots.
C10_ContentIndependent ==
    \A i \in DOMAIN composed :
        /\ composed[i].image
             = GenerateProductImage(composed[i].product, composed[i].size,
                                    fonts, [seed |-> 0, passes |-> 0]).image
        /\ Cardinality(OpsOf(composed[i].image, "dot")) = 50

\* two different products were composed one after the other
C10_Witness ==
    /\ Len(composed) = 2
    /\ composed[1].product # composed[2].product
    /\ composed[1].image # composed[2].image

\* the separator C6 names: a bullet between two spaces
BulletSeparator == " <U+2022> "

\* the entries of a list, in list order, each but the first after a separator
RECURSIVE Joined(_, _, _)
Joined(list, sep, n) ==
    IF n = 0 THEN ""
    ELSE IF n = 1 THEN list[1]
    ELSE Joined(list, sep, n - 1) \o sep \o list[n]

\* the story without a certifications section
StoryWithoutCertifications ==
    SpecSheetStory([sprod EXCEPT !.certifications = << >>], today)

\* the position at which block b occurs in the built story, 0 if it does not
PositionOf(b) ==
    IF \E k \in DOMAIN sdoc.story : sdoc.story[k] = b
    THEN CHOOSE k \in DOMAIN sdoc.story : sdoc.story[k] = b
    ELSE 0

\* the built story with the three blocks from position k on taken out
WithoutThreeAt(k) ==
    [i \in 1..(Len(sdoc.story) - 3) |->
        IF i < k THEN sdoc.story[i] ELSE sdoc.story[i + 3]]

\* C6 as stated: with no certification the built story has no Certifications
\* block; with some it has the header followed by one paragraph of all
\* entries in list order joined by the bullet separator; the other blocks are
\* the same in both cases.
C6_CertificationsBullet ==
    spc = "done" =>
        LET header == Paragraph("CERTIFICATIONS", "SectionHeader")
            k == PositionOf(header)
        IN  IF sprod.certifications = << >>
            THEN k = 0 /\ sdoc.story = StoryWithoutCertifications
            ELSE /\ k > 0
                 /\ k + 2 <= Len(sdoc.story)
                 /\ sdoc.story[k + 1].kind = "Paragraph"
                 /\ sdoc.story[k + 1].text
                      = CertPrefix \o Joined(sprod.certifications,
                                             BulletSeparator,
                                             Len(sprod.certifications))
                 /\ WithoutThreeAt(k) = StoryWithoutCertifications

(***************************************************************************)
(* C11: the order of the steps of a driver run                             *)
(***************************************************************************)
EventsOf(op) ==
    LET IsOp(e) == e.op = op
    IN  SelectSeq(events, IsOp)

\* the number of write steps among the first k steps that are for record i
WritesBefore(k, i) ==
    Cardinality({ j \in 1..(k - 1) :
                    events[j].op = "write" /\ events[j].rec = i })

\* the files a driver writes for one record
FilesPerRecord == IF driver = "images" THEN 2 ELSE 1

\* the names a driver gives its files
FileNames ==
    LET slugs == { catalog[i].slug : i \in DOMAIN catalog }
    IN  { FullName(s) : s \in slugs } \cup { ThumbName(s) : s \in slugs }
            \cup { SpecName(s) : s \in slugs } \cup { PlaceholderName }

\* the summary line announcing count files
ClaimedSummary(count) ==
    IF driver = "images"
    THEN "\n<U+2705> Generated " \o ToString(count) \o " images in "
            \o IMAGES_DIR
    ELSE "\n<U+201A><U+00FA><U+00D6> Generated " \o ToString(count)
            \o " PDF specification sheets in " \o DOCS_DIR

SummaryLines == { ClaimedSummary(c) : c \in 0..(2 * Len(catalog) + 1) }

\* C11: in every run of a driver the output directory is created before any
\* file is written; the composer is called once per record, in catalog
\* order; every file of record i is written before record i+1 is composed or
\* written; the completion line of a file is printed right after the file is
\* written; the summary line is printed last, and its count is the number
\* of writes performed: N for the documents, 2N+1 for the images.
C11_DriverOrder ==
    LET n == Len(events)
        composes == EventsOf("compose")
        written == EventsOf("write")
        names == FileNames
        summaries == SummaryLines
    IN  /\ (writes # << >> \/ written # << >>) => dirExists
        /\ \A k \in 1..n :
               events[k].op = "write" =>
                   \E j \in 1..(k - 1) :
                       events[j] = Event("mkdir", 0, OutputDir)
        /\ Len(composes) <= Len(catalog)
        /\ \A i \in DOMAIN composes :
               composes[i] = Event("compose", i, catalog[i].slug)
        /\ \A k \in 1..n :
               /\ (events[k].op = "compose" /\ events[k].rec > 1) =>
                      WritesBefore(k, events[k].rec - 1) = FilesPerRecord
               /\ (events[k].op = "write" /\ events[k].rec > 0) =>
                      /\ \E j \in 1..(k - 1) :
                             events[j] = Event("compose", events[k].rec,
                                               catalog[events[k].rec].slug)
                      /\ \A j \in 1..(k - 1) :
                             events[j].op = "write" =>
                                 /\ events[j].rec > 0
                                 /\ events[j].rec <= events[k].rec
               /\ events[k].op = "write" =>
                      /\ k + 1 <= n
                      /\ \E f \in names :
                             /\ events[k].arg = JoinPath(OutputDir, f)
                             /\ events[k + 1]
                                  = Event("print", events[k].rec,
                                          CreatedLine(f))
               /\ (events[k].op = "print"
                       /\ \E f \in names : events[k].arg = CreatedLine(f))
                      => /\ k > 1
                         /\ events[k - 1].op = "write"
                         /\ events[k].arg \in
                                { CreatedLine(f) : f \in
                                    { g \in names :
                                        JoinPath(OutputDir, g)
                                          = events[k - 1].arg } }
               /\ events[k].arg \in summaries => (k = n /\ pc = "done")
        /\ pc = "done" =>
               /\ Len(composes) = Len(catalog)
               /\ Len(written) = IF driver = "images"
                                 THEN 2 * Len(catalog) + 1
                                 ELSE Len(catalog)
               /\ Len(written) = Len(writes)
               /\ events[n] = Event("print", 0, ClaimedSummary(Len(written)))
               /\ log[Len(log)] = ClaimedSummary(Len(writes))

\* a run of the image driver over two records or more has finished
C11_Witness ==
    /\ driver = "images"
    /\ pc = "done"
    /\ Len(catalog) >= 2
    /\ Len(EventsOf("write")) = 2 * Len(catalog) + 1
    /\ events[Len(events)].arg = ImagesSummary

(***************************************************************************)
(* C12: the footer of the specification sheet                              *)
(***************************************************************************)
\* the paragraph carrying the day the document was generated
TimestampBlock ==
    Paragraph("<i>Document generated: " \o today
              \o " | Matcha Trading Platform</i>", "SpecSmallText")

\* the paragraph the code appends after it
NoticeBlock ==
    Paragraph("<i>For the most current information, please contact your "
              \o "sales representative.</i>", "SpecSmallText")

\* the header paragraphs of the sections of the record's sheet
SectionHeaders ==
    { Paragraph(t, "SectionHeader") :
        t \in { "PRODUCT OVERVIEW", "SENSORY PROFILE",
                "NUTRITIONAL INFORMATION (per gram)", "STORAGE & SHELF LIFE",
                "RECOMMENDED USES", "ORDERING INFORMATION" }
              \cup (IF sprod.certifications = << >> THEN { }
                    ELSE { "CERTIFICATIONS" }) }

\* the block sequence create_spec_sheet has built: the local list while it
\* is appended to, the blocks handed to doc.build once build has taken them
BuiltStory == IF spc = "done" THEN sdoc.story ELSE story

\* positions of block b in the block sequence
PositionsIn(b) == { k \in DOMAIN BuiltStory : BuiltStory[k] = b }

\* every section header is in the block sequence, before position k
SectionsBefore(k) ==
    \A h \in SectionHeaders :
        PositionsIn(h) # { } /\ \A j \in PositionsIn(h) : j < k

\* C12 as stated: once every block is appended, the generation-timestamp
\* paragraph is the last block of the block sequence, after every section,
\* and no block follows it.
C12_TimestampIsLastBlock ==
    spc \in { "build", "done" } =>
        /\ BuiltStory # << >>
        /\ BuiltStory[Len(BuiltStory)] = TimestampBlock
        /\ SectionsBefore(Len(BuiltStory))

\* C12, amended: the footer is two paragraphs, the generation timestamp and
\* a contact notice.  It is appended last: before that neither paragraph is
\* in the block sequence; after that the sequence ends with the timestamp
\* paragraph followed by the notice, every section lies before the
\* timestamp, the notice is the only block after it, and the blocks handed
\* to doc.build are the whole sheet of the record, footer included.
C12_FooterClosesStory ==
    /\ spc \notin { "build", "done" } =>
           PositionsIn(TimestampBlock) \cup PositionsIn(NoticeBlock) = { }
    /\ spc \in { "build", "done" } =>
           /\ Len(BuiltStory) >= 2
           /\ PositionsIn(TimestampBlock) = { Len(BuiltStory) - 1 }
           /\ PositionsIn(NoticeBlock) = { Len(BuiltStory) }
           /\ SectionsBefore(Len(BuiltStory) - 1)
           /\ BuiltStory = SpecSheetStory(sprod, today)

\* the sheet of a record with certifications has been built
C12_Witness ==
    /\ spc = "done"
    /\ sprod.certifications # << >>
    /\ Len(sdoc.story) >= 2
    /\ sdoc.story[Len(sdoc.story) - 1] = TimestampBlock

(***************************************************************************)
(* C13: the range of the gradient's channels                               *)
(***************************************************************************)
\* the pixels the loops of create_gradient have drawn so far
Painted ==
    { p \in DOMAIN gpixels : p[2] < gy \/ (p[2] = gy /\ p[1] < gx) }

\* C13 as stated: every pixel create_gradient has drawn has each channel
\* between the channels of color1 and color2 (inclusive), the interpolation
\* parameter num/den of the pixel satisfies 0 <= num/den < 1, and a direction
\* other than diagonal or vertical gives the pixels of the horizontal
\* gradient.
C13_ChannelsBetween ==
    \A p \in Painted :
        LET num == RatioNum(garg.direction, p[1], p[2])
            den == RatioDen(garg.direction, garg.width, garg.height)
        IN  /\ \A c \in 1..3 :
                   /\ Min(garg.color1[c], garg.color2[c]) <= gpixels[p][c]
                   /\ gpixels[p][c] <= Max(garg.color1[c], garg.color2[c])
                   /\ gpixels[p][c] \in 0..255
            /\ 0 <= num
            /\ num < den
            /\ garg.direction \notin { "diagonal", "vertical" } =>
                   gpixels[p] = GradientPixel(garg.width, garg.height,
                                              garg.color1, garg.color2,
                                              "horizontal", p[1], p[2])

====
